---- MODULE Spec2Model ----
(***************************************************************************)
(* Model of the single-page website auditor of audit/services.py:          *)
(* the markup parser, the link resolver and sampler, the finding           *)
(* evaluator, the scorer and the run_audit orchestrator with the rows it   *)
(* writes to the AuditRun, AuditFinding and AuditMetric tables.            *)
(*                                                                         *)
(* Text that the code manipulates (strip, lower, join, concatenation,      *)
(* prefix and substring tests) is a sequence of one-character strings.     *)
(* Enumerated values (tags, attribute names, categories, severities,       *)
(* statuses of a record) are plain strings.                                *)
(***************************************************************************)
EXTENDS Integers, Sequences, FiniteSets, TLC

(***************************************************************************)
(* Python values                                                           *)
(***************************************************************************)

\* None where a str is expected: no text has a multi-character element.
NoneS == <<"None">>

\* None where an int is expected (robots_status: Optional[int]).
NoneI == -1

\* Python truthiness of an Optional[str]: None and "" are falsy.
Truthy(s) == s # NoneS /\ s # <<>>

Max(a, b) == IF a >= b THEN a ELSE b

Min(a, b) == IF a <= b THEN a ELSE b

Digits == <<"0", "1", "2", "3", "4", "5", "6", "7", "8", "9">>

\* str(n) for a non-negative int.
RECURSIVE StrInt(_)
StrInt(n) == IF n < 10 THEN <<Digits[n + 1]>>
             ELSE StrInt(n \div 10) \o <<Digits[(n % 10) + 1]>>

\* int(text) of a decimal text without sign.
RECURSIVE IntOf(_)
IntOf(text) ==
    IF text = <<>> THEN 0
    ELSE 10 * IntOf(SubSeq(text, 1, Len(text) - 1))
            + (CHOOSE d \in 0..9 : Digits[d + 1] = text[Len(text)])

UpperLetters == <<"A", "B", "C", "D", "E", "F", "G", "H", "I", "J", "K", "L", "M",
                  "N", "O", "P", "Q", "R", "S", "T", "U", "V", "W", "X", "Y", "Z">>

LowerLetters == <<"a", "b", "c", "d", "e", "f", "g", "h", "i", "j", "k", "l", "m",
                  "n", "o", "p", "q", "r", "s", "t", "u", "v", "w", "x", "y", "z">>

LowerChar(c) == IF \E i \in 1..26 : UpperLetters[i] = c
                THEN LowerLetters[CHOOSE i \in 1..26 : UpperLetters[i] = c]
                ELSE c

\* str.lower()
Lower(s) == [i \in 1..Len(s) |-> LowerChar(s[i])]

Whitespace == {" ", "\t", "\n"}

RECURSIVE LStrip(_)
LStrip(s) == IF s # <<>> /\ Head(s) \in Whitespace THEN LStrip(Tail(s)) ELSE s

RECURSIVE RStrip(_)
RStrip(s) == IF s # <<>> /\ s[Len(s)] \in Whitespace
             THEN RStrip(SubSeq(s, 1, Len(s) - 1)) ELSE s

\* str.strip()
Strip(s) == RStrip(LStrip(s))

\* s.startswith(p)
StartsWith(s, p) == Len(s) >= Len(p) /\ SubSeq(s, 1, Len(p)) = p

\* p in s (substring test)
Contains(s, p) == \E i \in 1..(Len(s) - Len(p) + 1) : SubSeq(s, i, i + Len(p) - 1) = p

\* sep.join(items), items a sequence of texts.
RECURSIVE Join(_, _)
Join(sep, items) == IF items = <<>> THEN <<>>
                    ELSE IF Len(items) = 1 THEN items[1]
                    ELSE items[1] \o sep \o Join(sep, Tail(items))

\* Iterating a str yields its characters, each a str of length one.
CharsOf(s) == [i \in 1..Len(s) |-> <<s[i]>>]

\* dict as a sequence of <<key, value>> pairs in insertion order.
DictHas(d, k) == \E i \in 1..Len(d) : d[i][1] = k

DictGet(d, k, default) == IF DictHas(d, k)
                          THEN d[CHOOSE i \in 1..Len(d) : d[i][1] = k][2]
                          ELSE default

\* d[k] = v: an existing key keeps its position.
DictSet(d, k, v) == IF DictHas(d, k)
                    THEN [i \in 1..Len(d) |-> IF d[i][1] = k THEN <<k, v>> ELSE d[i]]
                    ELSE Append(d, <<k, v>>)

\* d.setdefault(k, v)
DictSetDefault(d, k, v) == IF DictHas(d, k) THEN d ELSE Append(d, <<k, v>>)

\* dict(pairs): a later pair overrides an earlier one with the same key.
RECURSIVE DictOf(_)
DictOf(pairs) == IF pairs = <<>> THEN <<>>
                 ELSE DictSet(DictOf(SubSeq(pairs, 1, Len(pairs) - 1)),
                              pairs[Len(pairs)][1], pairs[Len(pairs)][2])

(***************************************************************************)
(* Text literals of the source                                             *)
(***************************************************************************)

S_description == <<"d", "e", "s", "c", "r", "i", "p", "t", "i", "o", "n">>

S_icon == <<"i", "c", "o", "n">>

S_link_prefix == <<"l", "i", "n", "k", ":", ":">>

S_link_icon == <<"l", "i", "n", "k", ":", ":", "i", "c", "o", "n">>

S_comma == <<",">>

S_javascript == <<"j", "a", "v", "a", "s", "c", "r", "i", "p", "t", ":">>

S_untitled == <<"U", "n", "t", "i", "t", "l", "e", "d", " ", "p", "a", "g", "e">>

S_audit_failed == <<"A", "u", "d", "i", "t", " ", "f", "a", "i", "l", "e", "d", ":", " ">>

S_robots_path == <<"/", "r", "o", "b", "o", "t", "s", ".", "t", "x", "t">>

(***************************************************************************)
(* Markup parser: ParsedPage and _PageParser                               *)
(* The document is the sequence of events html.parser.HTMLParser delivers: *)
(* [kind |-> "start", tag, attrs], [kind |-> "end", tag],                  *)
(* [kind |-> "data", data]; attrs is the list of (name, value) pairs.      *)
(***************************************************************************)

ParsedPage(url) == [url |-> url, title |-> NoneS, meta |-> <<>>, links |-> <<>>,
                    images |-> <<>>, headings |-> <<>>, forms |-> 0]

\* _PageParser.__init__
NewParser == [page |-> ParsedPage(<<>>), stack |-> <<>>]

handle_starttag(p, tag, attrs) ==
    LET attrs_dict == DictOf(attrs) IN
    IF tag = "title" THEN [p EXCEPT !.stack = Append(@, "title")]
    ELSE IF tag = "a" THEN
        LET href == DictGet(attrs_dict, "href", NoneS) IN
        IF Truthy(href) THEN [p EXCEPT !.page.links = Append(@, href)] ELSE p
    ELSE IF tag = "img" THEN
        LET src == DictGet(attrs_dict, "src", <<>>)
            alt == DictGet(attrs_dict, "alt", <<>>)
        IN [p EXCEPT !.page.images = Append(@, <<src, alt>>)]
    ELSE IF tag \in {"h1", "h2", "h3"} THEN [p EXCEPT !.stack = Append(@, tag)]
    ELSE IF tag = "form" THEN [p EXCEPT !.page.forms = @ + 1]
    ELSE IF tag = "meta" THEN
        LET n1 == DictGet(attrs_dict, "name", NoneS)
            name == IF Truthy(n1) THEN n1 ELSE DictGet(attrs_dict, "property", NoneS)
            content == DictGet(attrs_dict, "content", NoneS)
        IN IF Truthy(name) /\ Truthy(content)
           THEN [p EXCEPT !.page.meta = DictSet(@, Lower(name), content)]
           ELSE p
    ELSE IF tag = "link" THEN
        LET rel == DictGet(attrs_dict, "rel", NoneS)
            href == DictGet(attrs_dict, "href", NoneS)
        IN IF Truthy(rel) /\ Truthy(href)
           THEN [p EXCEPT !.page.meta =
                    DictSetDefault(@, S_link_prefix \o Join(S_comma, CharsOf(rel)), href)]
           ELSE p
    ELSE p

handle_endtag_pop_any(p, tag) ==
    IF p.stack # <<>>
    THEN [p EXCEPT !.stack = SubSeq(@, 1, Len(@) - 1)]
    ELSE p

handle_endtag(p, tag) ==
    IF p.stack # <<>> /\ p.stack[Len(p.stack)] = tag
    THEN [p EXCEPT !.stack = SubSeq(@, 1, Len(@) - 1)]
    ELSE p

handle_data(p, data0) ==
    IF p.stack = <<>> THEN p
    ELSE LET key == p.stack[Len(p.stack)]
             data == Strip(data0)
         IN IF data = <<>> THEN p
            ELSE IF key = "title"
            THEN [p EXCEPT !.page.title = (IF Truthy(@) THEN @ ELSE <<>>) \o data]
            ELSE [p EXCEPT !.page.headings = Append(@, <<key, data>>)]

\* HTMLParser.feed: dispatch one event to its handler.
Dispatch(p, ev) ==
    IF ev.kind = "start" THEN handle_starttag(p, ev.tag, ev.attrs)
    ELSE IF ev.kind = "end" THEN handle_endtag(p, ev.tag)
    ELSE handle_data(p, ev.data)

RECURSIVE Feed(_, _)
Feed(p, events) == IF events = <<>> THEN p
                   ELSE Feed(Dispatch(p, Head(events)), Tail(events))

_parse_html(content, url) ==
    Feed([NewParser EXCEPT !.page.url = url], content.events).page

(***************************************************************************)
(* Link resolver: urllib.parse.urljoin on the reference forms the modelled *)
(* pages use (absolute URL, absolute path, relative path, empty), and      *)
(* _absolutize_links.                                                      *)
(***************************************************************************)

S_scheme_sep == <<":", "/", "/">>

\* Position of the first occurrence of p in s at or after position from, 0 if none.
IndexFrom(s, p, from) ==
    IF \E i \in from..(Len(s) - Len(p) + 1) : SubSeq(s, i, i + Len(p) - 1) = p
    THEN CHOOSE i \in from..(Len(s) - Len(p) + 1) :
            /\ SubSeq(s, i, i + Len(p) - 1) = p
            /\ \A j \in from..(i - 1) : SubSeq(s, j, j + Len(p) - 1) # p
    ELSE 0

HasScheme(u) == IndexFrom(u, S_scheme_sep, 1) > 1

\* Start of the path of an absolute URL, Len(u) + 1 when it has none.
PathStart(u) ==
    LET a == IndexFrom(u, S_scheme_sep, 1) + 3
        slash == IndexFrom(u, <<"/">>, a)
    IN IF slash = 0 THEN Len(u) + 1 ELSE slash

\* Position of the last "/" of the path, 0 when the URL has no path.
LastSlash(u) ==
    IF PathStart(u) > Len(u) THEN 0
    ELSE CHOOSE i \in PathStart(u)..Len(u) :
            u[i] = "/" /\ \A j \in (i + 1)..Len(u) : u[j] # "/"

\* The characters urlsplit accepts in a scheme.
SchemeChars == {UpperLetters[i] : i \in 1..26} \cup {LowerLetters[i] : i \in 1..26}
               \cup {Digits[i] : i \in 1..10} \cup {"+", "-", "."}

\* The scheme urlsplit finds in u, lowercased; empty when u has none.
Scheme(u) ==
    LET i == IndexFrom(u, <<":">>, 1) IN
    IF /\ i > 1
       /\ u[1] \in SchemeChars \ ({Digits[k] : k \in 1..10} \cup {"+", "-", "."})
       /\ \A j \in 1..(i - 1) : u[j] \in SchemeChars
    THEN Lower(SubSeq(u, 1, i - 1))
    ELSE <<>>

\* A reference without scheme resolved against base.
JoinReference(base, ref) ==
    IF ref = <<>> THEN base
    ELSE IF StartsWith(ref, <<"/", "/">>) THEN Scheme(base) \o <<":">> \o ref
    ELSE IF Head(ref) = "/" THEN SubSeq(base, 1, PathStart(base) - 1) \o ref
    ELSE IF LastSlash(base) = 0 THEN base \o <<"/">> \o ref
    ELSE SubSeq(base, 1, LastSlash(base)) \o ref

\* urljoin with every reference taken as one without scheme.
urljoin_schemeless(base, url) == JoinReference(base, url)

urljoin(base, url) ==
    IF url = <<>> THEN base
    ELSE IF Scheme(url) = <<>> THEN JoinReference(base, url)
    ELSE IF Scheme(url) # Scheme(base) THEN url
    ELSE JoinReference(base, SubSeq(url, Len(Scheme(url)) + 2, Len(url)))

RECURSIVE _absolutize_links(_, _)
_absolutize_links(base_url, links) ==
    IF links = <<>> THEN <<>>
    ELSE LET link0 == Head(links)
             rest == _absolutize_links(base_url, Tail(links))
         IN IF ~Truthy(link0) THEN rest
            ELSE LET link == Strip(link0) IN
                 IF StartsWith(link, S_javascript) THEN rest
                 ELSE <<urljoin(base_url, link)>> \o rest

\* The default of the limit parameter of _sample_link_health.
SampleLimit == 5

\* The sampled links without the slice by limit.
Sampled_unlimited(links) == links

\* links[:limit]
Sampled(links) == SubSeq(links, 1, Min(SampleLimit, Len(links)))

(***************************************************************************)
(* Finding evaluator                                                       *)
(***************************************************************************)

SEVERITY_LOW == "low"

SEVERITY_MEDIUM == "medium"

SEVERITY_HIGH == "high"

SlowThresholdMs == 2000

TruncateChars == 80

\* The one-character truncation mark of django.utils.text.Truncator (U+2026).
S_ellipsis == <<"...">>

\* Truncator(text).chars(80) leaving the text as it is.
Truncate_uncut(text) == text

\* Truncator(text).chars(80)
Truncate(text) == IF Len(text) > TruncateChars
                  THEN SubSeq(text, 1, TruncateChars - 1) \o S_ellipsis
                  ELSE text

Finding(category, severity, title, description, recommendation) ==
    [category |-> category, severity |-> severity, title |-> title,
     description |-> description, recommendation |-> recommendation]

\* [x for x in seq if Test(x)]
RECURSIVE BrokenLinks(_)
BrokenLinks(link_statuses) ==
    IF link_statuses = <<>> THEN <<>>
    ELSE LET e == Head(link_statuses) IN
         (IF e[2] >= 400 \/ e[2] = 0 THEN <<e[1]>> ELSE <<>>)
            \o BrokenLinks(Tail(link_statuses))

\* The images with an empty alt text, the text taken without strip().
RECURSIVE MissingAlt_unstripped(_)
MissingAlt_unstripped(images) ==
    IF images = <<>> THEN <<>>
    ELSE (IF Head(images)[2] = <<>> THEN <<Head(images)[1]>> ELSE <<>>)
            \o MissingAlt_unstripped(Tail(images))

\* Line 374: [src for src, alt in page.images if not alt.strip()]
RECURSIVE MissingAlt(_)
MissingAlt(images) ==
    IF images = <<>> THEN <<>>
    ELSE (IF Strip(Head(images)[2]) = <<>> THEN <<Head(images)[1]>> ELSE <<>>)
            \o MissingAlt(Tail(images))

AvailabilityRule(response_status) ==
    IF response_status >= 400 \/ response_status = 0
    THEN <<Finding("availability", SEVERITY_HIGH, "Homepage is unreachable",
                   <<"The main URL returned status ", StrInt(response_status), ".">>,
                   "Verify hosting availability and ensure the server returns 200 OK for the homepage.")>>
    ELSE <<>>

PerformanceRule(response_time_ms) ==
    IF response_time_ms > SlowThresholdMs
    THEN <<Finding("performance", SEVERITY_MEDIUM, "Slow initial response",
                   <<"Measured response time ", StrInt(response_time_ms), "ms exceeds the 2s threshold.">>,
                   "Optimize server-side rendering, add caching, and compress assets to improve TTFB.")>>
    ELSE <<>>

MetaDescriptionRule(page) ==
    IF ~Truthy(DictGet(page.meta, S_description, NoneS))
    THEN <<Finding("seo", SEVERITY_MEDIUM, "Missing meta description",
                   <<"The page does not define a meta description tag.">>,
                   "Add a concise, keyword-rich meta description under 160 characters to improve SERP visibility.")>>
    ELSE <<>>

BrandingRule(page) ==
    IF ~\E i \in 1..Len(page.meta) :
            StartsWith(page.meta[i][1], S_link_icon) \/ Contains(page.meta[i][1], S_icon)
    THEN <<Finding("branding", SEVERITY_LOW, "No favicon detected",
                   <<"Browsers did not detect a favicon link element.">>,
                   "Add a '<link rel='icon'>' tag pointing to a favicon for brand recognition.")>>
    ELSE <<>>

StructureRule(page) ==
    IF ~\E i \in 1..Len(page.headings) : page.headings[i][1] = "h1"
    THEN <<Finding("structure", SEVERITY_LOW, "No H1 heading",
                   <<"The page markup is missing a primary '<h1>' heading.">>,
                   "Provide a unique H1 heading describing the page contents.")>>
    ELSE <<>>

AccessibilityRule(page) ==
    LET missing_alt == MissingAlt(page.images) IN
    IF missing_alt # <<>>
    THEN <<Finding("accessibility", SEVERITY_MEDIUM, "Images without alternative text",
                   <<"Detected ", StrInt(Len(missing_alt)), " image(s) missing alt descriptions.">>,
                   "Add meaningful 'alt' attributes to all informative images to comply with WCAG guidelines.")>>
    ELSE <<>>

LinksRule(link_statuses) ==
    LET broken_links == BrokenLinks(link_statuses)
        first3 == SubSeq(broken_links, 1, Min(3, Len(broken_links)))
        truncated_links == Join(<<",", " ">>, [i \in 1..Len(first3) |-> Truncate(first3[i])])
    IN IF broken_links # <<>>
       THEN <<Finding("links", SEVERITY_HIGH, "Broken links detected",
                      <<"Sampled links returned errors: ", truncated_links, ".">>,
                      "Update or remove broken links to maintain trust and SEO health.")>>
       ELSE <<>>

RobotsRule(robots_status) ==
    IF robots_status = NoneI
    THEN <<Finding("seo", SEVERITY_LOW, "robots.txt not reachable",
                   <<"Crawler directives file '/robots.txt' was not found or returned an error.">>,
                   "Provide a robots.txt to guide search engine crawlers and list your sitemap.")>>
    ELSE <<>>

\* The evaluator with the structure rule applied before the meta description rule.
_evaluate_findings_structure_first(page, response_status, response_time_ms, robots_status, link_statuses) ==
    AvailabilityRule(response_status)
        \o PerformanceRule(response_time_ms)
        \o StructureRule(page)
        \o MetaDescriptionRule(page)
        \o BrandingRule(page)
        \o AccessibilityRule(page)
        \o LinksRule(link_statuses)
        \o RobotsRule(robots_status)

\* Lines 315-409: the eight rules in the order of the source.
_evaluate_findings(page, response_status, response_time_ms, robots_status, link_statuses) ==
    AvailabilityRule(response_status)
        \o PerformanceRule(response_time_ms)
        \o MetaDescriptionRule(page)
        \o BrandingRule(page)
        \o StructureRule(page)
        \o AccessibilityRule(page)
        \o LinksRule(link_statuses)
        \o RobotsRule(robots_status)

(***************************************************************************)
(* Scorer                                                                  *)
(***************************************************************************)

\* The penalty table with a bonus for an unrecognised severity.
Penalty_negative_default(severity) ==
    IF severity = SEVERITY_LOW THEN 5
    ELSE IF severity = SEVERITY_MEDIUM THEN 10
    ELSE IF severity = SEVERITY_HIGH THEN 20
    ELSE -5

\* penalties.get(severity, 5)
Penalty(severity) ==
    IF severity = SEVERITY_LOW THEN 5
    ELSE IF severity = SEVERITY_MEDIUM THEN 10
    ELSE IF severity = SEVERITY_HIGH THEN 20
    ELSE 5

RECURSIVE SumPenalties(_)
SumPenalties(findings) ==
    IF findings = <<>> THEN 0
    ELSE Penalty(Head(findings).severity) + SumPenalties(Tail(findings))

ScoreBase == 99

\* The scorer without the clamp at 0.
_calculate_score_unclamped(page, findings) == ScoreBase - SumPenalties(findings)

_calculate_score(page, findings) == Max(0, ScoreBase - SumPenalties(findings))

(***************************************************************************)
(* Region markers and score history (metadata of a completed audit)        *)
(***************************************************************************)

UpperChar(c) == IF \E i \in 1..26 : LowerLetters[i] = c
                THEN UpperLetters[CHOOSE i \in 1..26 : LowerLetters[i] = c]
                ELSE c

\* str.upper()
Upper(s) == [i \in 1..Len(s) |-> UpperChar(s[i])]

\* TLD_COORDS: (tld, latitude, longitude), the coordinates kept as written.
TLD_COORDS == <<
    <<<<"c", "o", "m">>, "37.7749", "-122.4194">>,
    <<<<"o", "r", "g">>, "38.9072", "-77.0369">>,
    <<<<"n", "e", "t">>, "40.7128", "-74.006">>,
    <<<<"i", "o">>, "51.5074", "-0.1278">>,
    <<<<"a", "i">>, "19.3133", "-64.8963">>,
    <<<<"c", "o">>, "4.711", "-74.0721">>,
    <<<<"d", "e">>, "52.52", "13.405">>,
    <<<<"f", "r">>, "48.8566", "2.3522">>,
    <<<<"k", "e">>, "-1.2864", "36.8172">>,
    <<<<"z", "a">>, "-26.2041", "28.0473">>,
    <<<<"i", "n">>, "28.6139", "77.209">>,
    <<<<"a", "u">>, "-33.8688", "151.2093">>,
    <<<<"c", "a">>, "43.6532", "-79.3832">>,
    <<<<"b", "r">>, "-23.5505", "-46.6333">>,
    <<<<"n", "g">>, "6.5244", "3.3792">>,
    <<<<"j", "p">>, "35.6895", "139.6917">>,
    <<<<"s", "g">>, "1.3521", "103.8198">>,
    <<<<"s", "e">>, "59.3293", "18.0686">>,
    <<<<"e", "s">>, "40.4168", "-3.7038">>,
    <<<<"i", "t">>, "41.9028", "12.4964">> >>

\* urlparse(url).hostname or "" for URLs without port and user information.
Hostname(url) ==
    IF ~HasScheme(url) THEN <<>>
    ELSE Lower(SubSeq(url, IndexFrom(url, S_scheme_sep, 1) + 3, PathStart(url) - 1))

\* host.split(".")[-1]
LastLabel(host) ==
    IF \E i \in 1..Len(host) : host[i] = "."
    THEN SubSeq(host, (CHOOSE i \in 1..Len(host) :
                          host[i] = "." /\ \A j \in (i + 1)..Len(host) : host[j] # ".") + 1,
                Len(host))
    ELSE host

RECURSIVE RegionMarkers(_, _)
RegionMarkers(urls, markers) ==
    IF urls = <<>> THEN markers
    ELSE LET host == Hostname(Head(urls))
             tld == Lower(LastLabel(host))
             seen == \E i \in 1..Len(markers) : markers[i].label = Upper(tld)
             known == \E i \in 1..Len(TLD_COORDS) : TLD_COORDS[i][1] = tld
             coords == TLD_COORDS[CHOOSE i \in 1..Len(TLD_COORDS) : TLD_COORDS[i][1] = tld]
         IN IF host = <<>> \/ seen \/ ~known
            THEN RegionMarkers(Tail(urls), markers)
            ELSE RegionMarkers(Tail(urls),
                    Append(markers, [label |-> Upper(tld), lat |-> coords[2], lon |-> coords[3]]))

_collect_region_markers(base_url, links) == RegionMarkers(<<base_url>> \o links, <<>>)

STATUS_PENDING == "pending"

STATUS_COMPLETED == "completed"

STATUS_FAILED == "failed"

\* float(score) of an integer score.
Float(n) == [whole |-> n, fraction |-> 0]

HistoryLimit == 3

\* Primary keys, oldest first, of the completed audits of the website, exclude_pk left out.
RECURSIVE CompletedPks(_, _, _, _)
CompletedPks(rows, website, exclude_pk, pk) ==
    IF pk > Len(rows) THEN <<>>
    ELSE (IF rows[pk].website = website /\ rows[pk].status = STATUS_COMPLETED /\ pk # exclude_pk
          THEN <<pk>> ELSE <<>>) \o CompletedPks(rows, website, exclude_pk, pk + 1)

\* The scores of the latest HistoryLimit completed audits, oldest first.
_previous_scores(rows, website, exclude_pk) ==
    LET pks == CompletedPks(rows, website, exclude_pk, 1)
        last == SubSeq(pks, Max(1, Len(pks) - HistoryLimit + 1), Len(pks))
    IN [i \in 1..Len(last) |-> Float(rows[last[i]].score)]

(***************************************************************************)
(* Rows of the AuditRun, AuditFinding and AuditMetric tables                *)
(***************************************************************************)

\* AuditRun.objects.create(website=..., url=..., created_by=...): field defaults.
NewAuditRow(website, url, user) ==
    [website |-> website, url |-> url, created_by |-> user,
     status |-> STATUS_PENDING, summary |-> <<>>, score |-> 0,
     response_time_ms |-> 0, content_length |-> 0, metadata |-> <<>>]

\* The in-memory AuditRun instance: the row fields and the primary key.
Instance(pk, row) == [pk |-> pk, row |-> row]

NoInstance == Instance(0, NewAuditRow("", <<>>, ""))

\* AuditFinding.objects.create(audit=audit, **finding)
FindingRow(pk, finding) ==
    [audit |-> pk, category |-> finding.category, severity |-> finding.severity,
     title |-> finding.title, description |-> finding.description,
     recommendation |-> finding.recommendation]

MetricRow(pk, label, value) == [audit |-> pk, label |-> label, value |-> value]

\* The five AuditMetric instances with the count of the links as parsed.
MetricRows_parsed_link_count(pk, status, response_time, body, absolute_links, page) ==
    << MetricRow(pk, "Response status", StrInt(status)),
       MetricRow(pk, "Response time (ms)", StrInt(response_time)),
       MetricRow(pk, "HTML bytes", StrInt(body.bytes)),
       MetricRow(pk, "Total links parsed", StrInt(Len(page.links))),
       MetricRow(pk, "Images parsed", StrInt(Len(page.images))) >>

\* The five AuditMetric instances passed to bulk_create.
MetricRows(pk, status, response_time, body, absolute_links, page) ==
    << MetricRow(pk, "Response status", StrInt(status)),
       MetricRow(pk, "Response time (ms)", StrInt(response_time)),
       MetricRow(pk, "HTML bytes", StrInt(body.bytes)),
       MetricRow(pk, "Total links parsed", StrInt(Len(absolute_links))),
       MetricRow(pk, "Images parsed", StrInt(Len(page.images))) >>

\* Rows of a table that belong to audit pk, in insertion order.
RECURSIVE RowsOf(_, _)
RowsOf(table, pk) ==
    IF table = <<>> THEN <<>>
    ELSE (IF Head(table).audit = pk THEN <<Head(table)>> ELSE <<>>) \o RowsOf(Tail(table), pk)

\* Lines 445-459 of run_audit: the fields assigned to the instance before the history query.
AssignCompleted(row, page, score, response_time, body) ==
    [row EXCEPT !.status = STATUS_COMPLETED,
                !.summary = IF Truthy(page.title) THEN page.title ELSE S_untitled,
                !.score = score,
                !.response_time_ms = response_time,
                !.content_length = body.bytes]

Metadata(status, page, link_statuses, robots_status, region_markers, score_history) ==
    << <<"status", status>>, <<"title", page.title>>, <<"meta", page.meta>>,
       <<"forms", page.forms>>, <<"headings", page.headings>>,
       <<"link_samples", link_statuses>>, <<"robots_status", robots_status>>,
       <<"region_markers", region_markers>>, <<"score_history", score_history>> >>

\* The failure handler writing the bare message as the summary.
AssignFailed_bare_message(row, exc) ==
    [row EXCEPT !.status = STATUS_FAILED, !.summary = exc]

\* Lines 478-479 of run_audit.
AssignFailed(row, exc) ==
    [row EXCEPT !.status = STATUS_FAILED, !.summary = S_audit_failed \o exc]

(***************************************************************************)
(* The environment: websites, responses of the network, pages              *)
(***************************************************************************)

S_example_url == <<"h", "t", "t", "p", "s", ":", "/", "/", "e", "x", "a", "m", "p", "l", "e", ".", "c", "o", "m">>

S_other_url == <<"h", "t", "t", "p", "s", ":", "/", "/", "o", "t", "h", "e", "r", ".", "o", "r", "g">>

Websites == {"w1", "w2"}

\* Website.url
WebsiteUrl(w) == IF w = "w1" THEN S_example_url ELSE S_other_url

Users == {"u1"}

Start(tag, attrs) == [kind |-> "start", tag |-> tag, attrs |-> attrs]

End(tag) == [kind |-> "end", tag |-> tag]

Data(data) == [kind |-> "data", data |-> data]

\* A response body: its length in bytes, the parser events of its text, and the
\* message of the error HTMLParser.feed raises on it (NoneS when it raises none).
Body(bytes, events, feed_error) == [bytes |-> bytes, events |-> events, feed_error |-> feed_error]

\* <html><head><title>Example Page</title><meta name="description" content="desc">
\* <link rel="icon" href="/favicon.ico"></head><body><h1>Heading</h1>
\* <img src="image.jpg" alt="alt text"></body></html>
GoodPage == Body(195, <<
    Start("html", <<>>), Start("head", <<>>), Start("title", <<>>),
    Data(<<"E", "x", "a", "m", "p", "l", "e", " ", "P", "a", "g", "e">>), End("title"),
    Start("meta", << <<"name", S_description>>, <<"content", <<"d", "e", "s", "c">> >> >>),
    Start("link", << <<"rel", S_icon>>, <<"href", <<"/", "f", "a", "v", "i", "c", "o", "n", ".", "i", "c", "o">> >> >>),
    End("head"), Start("body", <<>>), Start("h1", <<>>),
    Data(<<"H", "e", "a", "d", "i", "n", "g">>), End("h1"),
    Start("img", << <<"src", <<"i", "m", "a", "g", "e", ".", "j", "p", "g">> >>,
                    <<"alt", <<"a", "l", "t", " ", "t", "e", "x", "t">> >> >>),
    End("body"), End("html") >>, NoneS)

\* <html><head><title>Plain</title><meta name="Icon" content="/i.png"></head>
\* <body><a href="/missing">x</a></body></html>
PlainPage == Body(118, <<
    Start("html", <<>>), Start("head", <<>>), Start("title", <<>>),
    Data(<<"P", "l", "a", "i", "n">>), End("title"),
    Start("meta", << <<"name", <<"I", "c", "o", "n">> >>, <<"content", <<"/", "i", ".", "p", "n", "g">> >> >>),
    End("head"), Start("body", <<>>),
    Start("a", << <<"href", <<"/", "m", "i", "s", "s", "i", "n", "g">> >> >>),
    Data(<<"x">>), End("a"), End("body"), End("html") >>, NoneS)

\* <html><head><title>Example Page</title><meta name="description" content="desc">
\* <link rel="icon" href="/favicon.ico"></head><body><h1>Heading</h1>
\* <a href="/missing">x</a></body></html>
LinkedPage == Body(183, <<
    Start("html", <<>>), Start("head", <<>>), Start("title", <<>>),
    Data(<<"E", "x", "a", "m", "p", "l", "e", " ", "P", "a", "g", "e">>), End("title"),
    Start("meta", << <<"name", S_description>>, <<"content", <<"d", "e", "s", "c">> >> >>),
    Start("link", << <<"rel", S_icon>>, <<"href", <<"/", "f", "a", "v", "i", "c", "o", "n", ".", "i", "c", "o">> >> >>),
    End("head"), Start("body", <<>>), Start("h1", <<>>),
    Data(<<"H", "e", "a", "d", "i", "n", "g">>), End("h1"),
    Start("a", << <<"href", <<"/", "m", "i", "s", "s", "i", "n", "g">> >> >>),
    Data(<<"x">>), End("a"), End("body"), End("html") >>, NoneS)

\* <img src="a.png" alt=""><img src="b.png"><img src="c.png" alt="logo"><img src="d.png" alt=" "><a href="/missing">x</a><a href="javascript:void(0)">y</a>
ImagesPage == Body(152, <<
    Start("img", << <<"src", <<"a", ".", "p", "n", "g">> >>, <<"alt", <<>> >> >>),
    Start("img", << <<"src", <<"b", ".", "p", "n", "g">> >> >>),
    Start("img", << <<"src", <<"c", ".", "p", "n", "g">> >>, <<"alt", <<"l", "o", "g", "o">> >> >>),
    Start("img", << <<"src", <<"d", ".", "p", "n", "g">> >>, <<"alt", <<" ">> >> >>),
    Start("a", << <<"href", <<"/", "m", "i", "s", "s", "i", "n", "g">> >> >>),
    Data(<<"x">>),
    End("a"),
    Start("a", << <<"href", <<"j", "a", "v", "a", "s", "c", "r", "i", "p", "t", ":", "v", "o", "i", "d", "(", "0", ")">> >> >>),
    Data(<<"y">>),
    End("a") >>, NoneS)

\* <a href="/a">1</a><a href="/b">2</a><a href="/a">3</a>
DupLinksPage == Body(54, <<
    Start("a", << <<"href", <<"/", "a">> >> >>),
    Data(<<"1">>),
    End("a"),
    Start("a", << <<"href", <<"/", "b">> >> >>),
    Data(<<"2">>),
    End("a"),
    Start("a", << <<"href", <<"/", "a">> >> >>),
    Data(<<"3">>),
    End("a") >>, NoneS)

\* Six links: the first resolves to 82 characters, the second to 80.
\* <a href="/aaaaaaaaaaaaaaaaaaaaaaaaaaaaaaaaaaaaaaaaaaaaaaaaaaaaaaaaaaaaaa">1</a><a href="/bbbbbbbbbbbbbbbbbbbbbbbbbbbbbbbbbbbbbbbbbbbbbbbbbbbbbbbbbbbb">2</a><a href="/c">3</a><a href="/d">4</a><a href="/e">5</a><a href="/f">6</a>
SixLinksPage == Body(228, <<
    Start("a", << <<"href", <<"/", "a", "a", "a", "a", "a", "a", "a", "a", "a", "a", "a", "a", "a", "a", "a", "a", "a", "a", "a", "a", "a", "a", "a", "a", "a", "a", "a", "a", "a", "a", "a", "a", "a", "a", "a", "a", "a", "a", "a", "a", "a", "a", "a", "a", "a", "a", "a", "a", "a", "a", "a", "a", "a", "a", "a", "a", "a", "a", "a", "a", "a", "a">> >> >>),
    Data(<<"1">>),
    End("a"),
    Start("a", << <<"href", <<"/", "b", "b", "b", "b", "b", "b", "b", "b", "b", "b", "b", "b", "b", "b", "b", "b", "b", "b", "b", "b", "b", "b", "b", "b", "b", "b", "b", "b", "b", "b", "b", "b", "b", "b", "b", "b", "b", "b", "b", "b", "b", "b", "b", "b", "b", "b", "b", "b", "b", "b", "b", "b", "b", "b", "b", "b", "b", "b", "b", "b">> >> >>),
    Data(<<"2">>),
    End("a"),
    Start("a", << <<"href", <<"/", "c">> >> >>),
    Data(<<"3">>),
    End("a"),
    Start("a", << <<"href", <<"/", "d">> >> >>),
    Data(<<"4">>),
    End("a"),
    Start("a", << <<"href", <<"/", "e">> >> >>),
    Data(<<"5">>),
    End("a"),
    Start("a", << <<"href", <<"/", "f">> >> >>),
    Data(<<"6">>),
    End("a") >>, NoneS)

\* An empty body.
EmptyPage == Body(0, <<>>, NoneS)

\* <img src="image.jpg" alt>: the alt attribute has no value, its value is None.
NoAltValuePage == Body(25, <<
    Start("img", << <<"src", <<"i", "m", "a", "g", "e", ".", "j", "p", "g">> >>, <<"alt", NoneS>> >>) >>, NoneS)

\* <a href="http://[">x</a>: urljoin raises ValueError on the link.
BadLinkPage == Body(24, <<
    Start("a", << <<"href", <<"h", "t", "t", "p", ":", "/", "/", "[">> >> >>),
    Data(<<"x">>), End("a") >>, NoneS)

\* <![x[ : HTMLParser.feed raises AssertionError on the marked section.
MarkedSectionPage == Body(5, <<>>,
    <<"u", "n", "k", "n", "o", "w", "n", " ", "s", "t", "a", "t", "u", "s", " ", "k", "e", "y", "w", "o", "r", "d">>)

Pages == {GoodPage, PlainPage, ImagesPage, EmptyPage, NoAltValuePage, BadLinkPage, MarkedSectionPage}

\* Pages that differ in the number of their links.
LinkPages == {EmptyPage, PlainPage, DupLinksPage, SixLinksPage}

\* Status codes a server answers the target and robots.txt requests with.
ServerStatuses == {200, 399, 400}

\* Status codes a server answers a sampled link with.
LinkServerStatuses == {200, 404}

\* Elapsed milliseconds the clock measures around a request.
ElapsedTimes == {120, 2000, 2001}

S_boom == <<"b", "o", "o", "m">>

S_timed_out == <<"t", "i", "m", "e", "d", " ", "o", "u", "t">>

\* Messages of the errors a request raises when the transport fails.
TransportErrors == {S_boom, S_timed_out}

S_database_error == <<"d", "a", "t", "a", "b", "a", "s", "e", " ", "e", "r", "r", "o", "r">>

S_invalid_url == <<"I", "n", "v", "a", "l", "i", "d", " ", "I", "P", "v", "6", " ", "U", "R", "L">>

S_none_strip == <<"'", "N", "o", "n", "e", "T", "y", "p", "e", "'", " ", "o", "b", "j", "e", "c", "t", " ",
                  "h", "a", "s", " ", "n", "o", " ", "a", "t", "t", "r", "i", "b", "u", "t", "e", " ",
                  "'", "s", "t", "r", "i", "p", "'">>

\* What urllib.request.urlopen does with the answer of the server: a status
\* outside 200..299 is raised as HTTPError carrying the code and the body.
Urlopen(status, body, elapsed) ==
    IF status >= 200 /\ status < 300
    THEN [kind |-> "response", status |-> status, body |-> body, elapsed |-> elapsed]
    ELSE [kind |-> "http_error", code |-> status, body |-> body, elapsed |-> elapsed]

\* An HTTPError without a code attribute (the default of getattr(exc, "code", 0)).
CodelessHttpError(body, elapsed) ==
    [kind |-> "http_error", code |-> NoneI, body |-> body, elapsed |-> elapsed]

\* Any other exception of urlopen.
TransportError(msg) == [kind |-> "transport_error", msg |-> msg]

\* _safe_request without its except HTTPError clause.
_safe_request_no_http_error_clause(outcome) ==
    IF outcome.kind = "response"
    THEN [raised |-> FALSE, status |-> outcome.status, body |-> outcome.body,
          elapsed_ms |-> outcome.elapsed]
    ELSE [raised |-> TRUE, exc |-> S_boom]

\* _safe_request: the result returned to the caller, or the exception it lets through.
_safe_request(outcome) ==
    IF outcome.kind = "response"
    THEN [raised |-> FALSE, status |-> outcome.status, body |-> outcome.body,
          elapsed_ms |-> outcome.elapsed]
    ELSE IF outcome.kind = "http_error"
    THEN [raised |-> FALSE, status |-> IF outcome.code = NoneI THEN 0 ELSE outcome.code,
          body |-> outcome.body, elapsed_ms |-> outcome.elapsed]
    ELSE [raised |-> TRUE, exc |-> outcome.msg]

\* The outcomes of urlopen for the target page.
TargetOutcomes ==
    {Urlopen(s, b, t) : s \in ServerStatuses, b \in Pages, t \in ElapsedTimes}
        \cup {CodelessHttpError(b, t) : b \in Pages, t \in ElapsedTimes}
        \cup {TransportError(m) : m \in TransportErrors}

\* The outcomes of urlopen for the target page of a site that serves GoodPage,
\* answers 400 with PlainPage after 2001 ms, or cannot be reached.
SiteOutcomes == {Urlopen(200, GoodPage, 120), Urlopen(400, PlainPage, 2001), TransportError(S_boom)}

\* The outcomes of urlopen for the target page of a site that serves LinkedPage or
\* cannot be reached.
ReachableOutcomes == {Urlopen(200, LinkedPage, 120), TransportError(S_boom)}

\* The outcomes of urlopen for a sampled link; body and time are dropped by the caller.
LinkOutcomes ==
    {Urlopen(s, EmptyPage, 0) : s \in LinkServerStatuses} \cup {TransportError(S_boom)}

\* The outcomes of urlopen for /robots.txt.
RobotsOutcomes ==
    {Urlopen(s, EmptyPage, 0) : s \in ServerStatuses}
        \cup {CodelessHttpError(EmptyPage, 0), TransportError(S_boom)}

\* The outcomes of urlopen for the target page of a site that answers with one of
\* LinkPages or cannot be reached.
LinkPageOutcomes == {Urlopen(200, b, 120) : b \in LinkPages} \cup {TransportError(S_boom)}

\* The status recorded for one sampled link, a failure recorded as 200.
SampleStatus_failure_as_ok(res) == IF res.raised THEN 200 ELSE res.status

\* Lines 308-311 of _sample_link_health: the status recorded for one sampled link.
SampleStatus(res) == IF res.raised THEN 0 ELSE res.status

\* The robots status kept from the robots.txt request, a status of 400 kept.
RobotsStatus_above_400(res) ==
    IF res.raised THEN NoneI
    ELSE IF res.status > 400 THEN NoneI
    ELSE res.status

\* Lines 436-440 of run_audit: the robots status kept from the robots.txt request.
RobotsStatus(res) ==
    IF res.raised THEN NoneI
    ELSE IF res.status >= 400 THEN NoneI
    ELSE res.status

\* Some image has alt None: alt.strip() raises AttributeError in _evaluate_findings.
EvaluateRaises(page) == \E i \in 1..Len(page.images) : page.images[i][2] = NoneS

\* Some link is rejected by urljoin with ValueError.
UrljoinRaises(links) ==
    \E i \in 1..Len(links) :
        /\ Truthy(links[i])
        /\ ~StartsWith(Strip(links[i]), S_javascript)
        /\ Contains(links[i], <<"[">>) /\ ~Contains(links[i], <<"]">>)

(***************************************************************************)
(* Subscriptions: SubscriptionPlan and UserSubscription of models.py       *)
(***************************************************************************)

\* timezone.now(), in days; the clock does not advance during a request.
Now == 1000

\* The slugs of the plans of SubscriptionPlan.bootstrap_defaults.
PlanSlugs == {"free-trial", "growth", "scale"}

\* SubscriptionPlan.audit_quota of the bootstrap plans; scale has no quota.
audit_quota(plan) == IF plan = "free-trial" THEN 1
                     ELSE IF plan = "growth" THEN 20
                     ELSE NoneI

\* SubscriptionPlan.period_delta, in days: trial_days for the trial, 30 for a monthly plan.
period_delta(plan) == IF plan = "free-trial" THEN 7 ELSE 30

STATUS_ACTIVE == "active"

\* A UserSubscription row.
SubscriptionRow(user, plan, period_start, period_end, used) ==
    [user |-> user, plan |-> plan, status |-> STATUS_ACTIVE,
     current_period_start |-> period_start, current_period_end |-> period_end,
     audits_used |-> used, is_trial |-> plan = "free-trial"]

NoSubscription == Instance(0, SubscriptionRow("", "", NoneI, NoneI, 0))

\* UserSubscriptionManager.active_for_user: the active row of the user whose
\* period has not ended, latest period end first, then latest created.
active_for_user(table, user) ==
    LET matching == {pk \in 1..Len(table) :
                        /\ table[pk].user = user
                        /\ table[pk].status = STATUS_ACTIVE
                        /\ \/ table[pk].current_period_end = NoneI
                           \/ table[pk].current_period_end >= Now}
    IN IF matching = {} THEN NoSubscription
       ELSE LET first == CHOOSE p \in matching : \A q \in matching :
                            \/ table[q].current_period_end < table[p].current_period_end
                            \/ /\ table[q].current_period_end = table[p].current_period_end
                               /\ q <= p
            IN Instance(first, table[first])

\* UserSubscription.refresh_period: the table and the instance after the call.
refresh_period(table, self) ==
    IF self.row.current_period_end # NoneI /\ self.row.current_period_end > Now
    THEN [table |-> table, instance |-> self]
    ELSE LET period_end == Now + period_delta(self.row.plan) IN
         [table |-> [table EXCEPT ![self.pk] = [@ EXCEPT !.current_period_start = Now,
                                                        !.current_period_end = period_end,
                                                        !.audits_used = 0]],
          instance |-> [self EXCEPT !.row = [@ EXCEPT !.current_period_start = Now,
                                                      !.current_period_end = period_end,
                                                      !.audits_used = 0]]]

\* UserSubscription.remaining_audits
remaining_audits(self) ==
    IF audit_quota(self.row.plan) = NoneI THEN NoneI
    ELSE Max(audit_quota(self.row.plan) - self.row.audits_used, 0)

\* UserSubscription.increment_usage: the table and the instance after the call;
\* save(update_fields=...) writes audits_used of the instance to its row.
increment_usage(table, self) ==
    LET quota == audit_quota(self.row.plan) IN
    IF quota = NoneI \/ self.row.audits_used < quota
    THEN [table |-> [table EXCEPT ![self.pk].audits_used = self.row.audits_used + 1],
          instance |-> [self EXCEPT !.row.audits_used = @ + 1]]
    ELSE [table |-> table, instance |-> self]

\* UserSubscription.has_capacity
has_capacity(self) ==
    LET quota == audit_quota(self.row.plan) IN
    IF quota = NoneI THEN TRUE ELSE self.row.audits_used < quota

\* AuditRun.objects.filter(created_by=user).count()
AuditCount(auditRows, user) ==
    Cardinality({pk \in 1..Len(auditRows) : auditRows[pk].created_by = user})

\* UserSubscription.ensure_trial: the table and the instance after the call.
ensure_trial(table, auditRows, user) ==
    LET existing == {pk \in 1..Len(table) :
                        /\ table[pk].user = user
                        /\ table[pk].plan = "free-trial"
                        /\ table[pk].status = STATUS_ACTIVE}
    IN IF existing # {}
       THEN LET pk == CHOOSE p \in existing : \A q \in existing : q <= p
            IN [table |-> table, instance |-> Instance(pk, table[pk])]
       ELSE LET row == SubscriptionRow(user, "free-trial", Now, Now + period_delta("free-trial"),
                                       AuditCount(auditRows, user))
            IN [table |-> Append(table, row), instance |-> Instance(Len(table) + 1, row)]

\* UserSubscription.start_new: the table and the instance after the call; no
\* bootstrap plan is billed for a lifetime, so the period has an end.
start_new(table, user, plan) ==
    LET row == SubscriptionRow(user, plan, Now, Now + period_delta(plan), 0)
    IN [table |-> Append(table, row), instance |-> Instance(Len(table) + 1, row)]

\* _resolve_subscription of views.py: the table and the instance after the call.
_resolve_subscription(table, auditRows, user) ==
    LET subscription == active_for_user(table, user) IN
    IF subscription # NoSubscription
    THEN refresh_period(table, subscription)
    ELSE LET trial == ensure_trial(table, auditRows, user)
         IN refresh_period(trial.table, trial.instance)

\* Lines 269-272 of audit_dashboard with the usage counted whatever the status.
ReportUsage_any_status(table, subscription, audit_status) ==
    IF subscription # NoSubscription
    THEN increment_usage(table, subscription)
    ELSE [table |-> table, instance |-> subscription]

\* Lines 269-272 of audit_dashboard: the usage is counted for a completed audit.
ReportUsage(table, subscription, audit_status) ==
    IF audit_status = STATUS_COMPLETED /\ subscription # NoSubscription
    THEN increment_usage(table, subscription)
    ELSE [table |-> table, instance |-> subscription]

\* What a caller of run_audit other than the dashboard holds as view state.
NoView == [user |-> "", is_staff |-> FALSE, subscription |-> NoSubscription]

(***************************************************************************)
(* State                                                                   *)
(***************************************************************************)

\* Number of callers that may be inside run_audit at the same time.
NumProcs == 2

\* Number of audits already stored when the modelled invocations start.
MaxPrior == 1

Procs == 1..NumProcs

VARIABLES
    audits,      \* AuditRun table: row pk is audits[pk]
    findingRows, \* AuditFinding table, in insertion order
    metricRows,  \* AuditMetric table, in insertion order
    pc,          \* position of each caller in run_audit
    loc,         \* local variables of each run_audit invocation
    requests,    \* calls of _safe_request by each invocation, in order: URL and outcome
    created,     \* primary keys of the AuditRun rows each invocation has created
    score_findings, \* the finding list handed to _calculate_score on its own
    score_result,   \* the score _calculate_score returned for score_findings
    subs,        \* UserSubscription table: row pk is subs[pk]
    view,        \* the user and the subscription instance of each request to audit_dashboard
    parser,      \* a _PageParser object: its page and its _current_data_stack
    event,       \* the callback HTMLParser.feed made last on parser
    fed,         \* number of callbacks made on parser so far
    abs_base,    \* base_url argument of a call of _absolutize_links on its own
    abs_links,   \* links argument of that call
    abs_result   \* the list that call returned

vars == <<audits, findingRows, metricRows, pc, loc, requests, created, score_findings, score_result,
          subs, view, parser, event, fed, abs_base, abs_links, abs_result>>

scorer == <<score_findings, score_result>>

billing == <<subs, view>>

units == <<parser, event, fed, abs_base, abs_links, abs_result>>

\* No callback made by feed yet.
NoEvent == [kind |-> "none"]

\* The parser and the resolver on their own are not in use.
UnitsIdle ==
    /\ parser = NewParser
    /\ event = NoEvent
    /\ fed = 0
    /\ abs_base = <<>>
    /\ abs_links = <<>>
    /\ abs_result = <<>>

\* One entry of requests: the function that called _safe_request, the URL
\* requested and what urlopen did.
Request(caller, url, outcome) ==
    [caller |-> caller, url |-> url, kind |-> outcome.kind,
     bytes |-> IF outcome.kind = "transport_error" THEN NoneI ELSE outcome.body.bytes,
     code |-> IF outcome.kind = "response" THEN outcome.status
              ELSE IF outcome.kind = "http_error" THEN outcome.code
              ELSE NoneI]

\* The locals of run_audit before its first statement.
InitLoc == [website |-> "", target_url |-> <<>>, audit |-> NoInstance,
            status |-> 0, body |-> EmptyPage, response_time |-> 0,
            page |-> ParsedPage(<<>>), absolute_links |-> <<>>,
            link_statuses |-> <<>>, robots_status |-> NoneI,
            findings |-> <<>>, score |-> 0, region_markers |-> <<>>,
            n |-> 0, exc |-> NoneS, raised_at |-> ""]

(***************************************************************************)
(* Audits stored before the modelled invocations: each is the outcome of   *)
(* an earlier run_audit, computed with the operators above.                *)
(***************************************************************************)

PriorKinds == {[outcome |-> STATUS_COMPLETED, website |-> "w1"],
               [outcome |-> STATUS_COMPLETED, website |-> "w2"],
               [outcome |-> STATUS_FAILED, website |-> "w1"]}

EmptyDb == [audits |-> <<>>, findingRows |-> <<>>, metricRows |-> <<>>]

\* The tables after run_audit(website) fetched GoodPage (200, 120 ms, robots 200).
CompletedRun(db, website) ==
    LET pk == Len(db.audits) + 1
        url == WebsiteUrl(website)
        page == _parse_html(GoodPage, url)
        links == _absolutize_links(url, page.links)
        findings == _evaluate_findings(page, 200, 120, 200, <<>>)
        score == _calculate_score(page, findings)
        row == [AssignCompleted(NewAuditRow(website, url, "u1"), page, score, 120, GoodPage)
                  EXCEPT !.metadata = Metadata(200, page, <<>>, 200,
                                               _collect_region_markers(url, links),
                                               _previous_scores(db.audits, website, pk))]
    IN [audits |-> Append(db.audits, row),
        findingRows |-> db.findingRows \o [i \in 1..Len(findings) |-> FindingRow(pk, findings[i])],
        metricRows |-> db.metricRows \o MetricRows(pk, 200, 120, GoodPage, links, page)]

\* The tables after run_audit(website) whose target fetch raised.
FailedRun(db, website) ==
    [db EXCEPT !.audits = Append(@, AssignFailed(NewAuditRow(website, WebsiteUrl(website), "u1"), S_boom))]

RECURSIVE DbAfter(_)
DbAfter(kinds) ==
    IF kinds = <<>> THEN EmptyDb
    ELSE LET db == DbAfter(SubSeq(kinds, 1, Len(kinds) - 1))
             k == kinds[Len(kinds)]
         IN IF k.outcome = STATUS_COMPLETED THEN CompletedRun(db, k.website)
            ELSE FailedRun(db, k.website)

PriorDbs == {DbAfter(kinds) : kinds \in UNION {[1..n -> PriorKinds] : n \in 0..MaxPrior}}

\* Tables holding one of dbs; the callers named in starters are about to call run_audit.
InitFrom(dbs, starters) ==
    /\ \E db \in dbs :
        /\ audits = db.audits
        /\ findingRows = db.findingRows
        /\ metricRows = db.metricRows
    /\ pc = [r \in Procs |-> IF r \in starters THEN "idle" ELSE "off"]
    /\ loc = [r \in Procs |-> InitLoc]
    /\ requests = [r \in Procs |-> <<>>]
    /\ created = [r \in Procs |-> <<>>]
    /\ score_findings = <<>>
    /\ score_result = NoneI
    /\ subs = <<>>
    /\ view = [r \in Procs |-> NoView]
    /\ UnitsIdle

InitWith(starters) == InitFrom(PriorDbs, starters)

Init == InitWith({1})

(***************************************************************************)
(* run_audit, one action per statement that touches the network or the     *)
(* database                                                                *)
(***************************************************************************)

\* Websites the modelled callers audit.
AuditedWebsites == {"w1"}

\* Values of the url argument of run_audit.
UrlArgs == {NoneS}

Goto(r, label) == pc' = [pc EXCEPT ![r] = label]

\* Control passes to the except clause of run_audit with exception message msg.
Raise(r, msg) ==
    /\ loc' = [loc EXCEPT ![r] = [@ EXCEPT !.exc = msg, !.raised_at = pc[r]]]
    /\ Goto(r, "except")

\* Lines 425-426: target_url = url or website.url; AuditRun.objects.create(...)
Create(r) ==
    /\ pc[r] = "idle"
    /\ \E website \in AuditedWebsites, url \in UrlArgs, user \in Users :
        LET target_url == IF Truthy(url) THEN url ELSE WebsiteUrl(website)
            row == NewAuditRow(website, target_url, user)
        IN /\ audits' = Append(audits, row)
           /\ loc' = [loc EXCEPT ![r] = [InitLoc EXCEPT !.website = website,
                                                        !.target_url = target_url,
                                                        !.audit = Instance(Len(audits) + 1, row)]]
    /\ created' = [created EXCEPT ![r] = Append(@, Len(audits) + 1)]
    /\ Goto(r, "fetch")
    /\ UNCHANGED <<findingRows, metricRows, requests, scorer, billing, units>>

\* The target fetch with run_audit going on to the robots.txt request after a failure.
Fetched_carry_on(r, outcome) ==
    LET res == _safe_request(outcome) IN
    /\ requests' = [requests EXCEPT ![r] = Append(@, Request("run_audit", loc[r].target_url, outcome))]
    /\ IF res.raised THEN loc' = loc /\ Goto(r, "robots")
       ELSE /\ loc' = [loc EXCEPT ![r] = [@ EXCEPT !.status = res.status,
                                                   !.body = res.body,
                                                   !.response_time = res.elapsed_ms]]
            /\ Goto(r, "parse")

\* Line 429: status, body, response_time = _safe_request(target_url), where
\* urlopen does outcome.
Fetched(r, outcome) ==
    LET res == _safe_request(outcome) IN
    /\ requests' = [requests EXCEPT ![r] = Append(@, Request("run_audit", loc[r].target_url, outcome))]
    /\ IF res.raised THEN Raise(r, res.exc)
       ELSE /\ loc' = [loc EXCEPT ![r] = [@ EXCEPT !.status = res.status,
                                                   !.body = res.body,
                                                   !.response_time = res.elapsed_ms]]
            /\ Goto(r, "parse")

\* Line 429, the target answering with any of TargetOutcomes.
FetchTarget(r) ==
    /\ pc[r] = "fetch"
    /\ \E outcome \in TargetOutcomes : Fetched(r, outcome)
    /\ UNCHANGED <<audits, findingRows, metricRows, created, scorer, billing, units>>

\* Line 429, the target answering with one of LinkPages.
FetchLinkPage(r) ==
    /\ pc[r] = "fetch"
    /\ \E outcome \in LinkPageOutcomes : Fetched(r, outcome)
    /\ UNCHANGED <<audits, findingRows, metricRows, created, scorer, billing, units>>

\* Line 429, the target answering with one of SiteOutcomes.
FetchSite(r) ==
    /\ pc[r] = "fetch"
    /\ \E outcome \in SiteOutcomes : Fetched(r, outcome)
    /\ UNCHANGED <<audits, findingRows, metricRows, created, scorer, billing, units>>

\* Line 429, the target answering with one of ReachableOutcomes.
FetchReachable(r) ==
    /\ pc[r] = "fetch"
    /\ \E outcome \in ReachableOutcomes : Fetched(r, outcome)
    /\ UNCHANGED <<audits, findingRows, metricRows, created, scorer, billing, units>>

\* Line 430: page = _parse_html(body, target_url)
Parse(r) ==
    /\ pc[r] = "parse"
    /\ IF loc[r].body.feed_error # NoneS THEN Raise(r, loc[r].body.feed_error)
       ELSE /\ loc' = [loc EXCEPT ![r].page = _parse_html(loc[r].body, loc[r].target_url)]
            /\ Goto(r, "absolutize")
    /\ UNCHANGED <<audits, findingRows, metricRows, requests, created, scorer, billing, units>>

\* Line 431: absolute_links = _absolutize_links(target_url, page.links)
Absolutize(r) ==
    /\ pc[r] = "absolutize"
    /\ IF UrljoinRaises(loc[r].page.links) THEN Raise(r, S_invalid_url)
       ELSE /\ loc' = [loc EXCEPT ![r] = [@ EXCEPT
                        !.absolute_links = _absolutize_links(loc[r].target_url, loc[r].page.links),
                        !.link_statuses = <<>>,
                        !.n = 0]]
            /\ Goto(r, "sample")
    /\ UNCHANGED <<audits, findingRows, metricRows, requests, created, scorer, billing, units>>

\* Lines 306-311: one iteration of the loop of _sample_link_health, where
\* urlopen does outcome.
LinkFetched(r, outcome) ==
    LET link == Sampled(loc[r].absolute_links)[loc[r].n + 1]
        res == _safe_request(outcome)
        status == SampleStatus(res)
    IN /\ requests' = [requests EXCEPT ![r] = Append(@, Request("_sample_link_health", link, outcome))]
       /\ loc' = [loc EXCEPT ![r] = [@ EXCEPT
                !.link_statuses = DictSet(@, link, status),
                !.n = @ + 1]]

\* Lines 306-311, the link answering with any of LinkOutcomes.
SampleLink(r) ==
    /\ pc[r] = "sample"
    /\ loc[r].n < Len(Sampled(loc[r].absolute_links))
    /\ \E outcome \in LinkOutcomes : LinkFetched(r, outcome)
    /\ UNCHANGED <<audits, findingRows, metricRows, pc, created, scorer, billing, units>>

\* Lines 306-311, the link answering 200 or not at all.
SampleReachableLink(r) ==
    /\ pc[r] = "sample"
    /\ loc[r].n < Len(Sampled(loc[r].absolute_links))
    /\ \E outcome \in {Urlopen(200, EmptyPage, 0), TransportError(S_boom)} : LinkFetched(r, outcome)
    /\ UNCHANGED <<audits, findingRows, metricRows, pc, created, scorer, billing, units>>

\* Line 312: return samples
SampleReturn(r) ==
    /\ pc[r] = "sample"
    /\ loc[r].n = Len(Sampled(loc[r].absolute_links))
    /\ Goto(r, "robots")
    /\ UNCHANGED <<audits, findingRows, metricRows, loc, requests, created, scorer, billing, units>>

\* Lines 435-440: the robots.txt request, where urlopen does outcome.
RobotsFetched(r, outcome) ==
    LET res == _safe_request(outcome)
        robots_status == RobotsStatus(res)
    IN /\ requests' = [requests EXCEPT ![r] =
                        Append(@, Request("run_audit", urljoin(loc[r].target_url, S_robots_path), outcome))]
       /\ loc' = [loc EXCEPT ![r].robots_status = robots_status]
       /\ Goto(r, "evaluate")

\* Lines 435-440, robots.txt answering with any of RobotsOutcomes.
Robots(r) ==
    /\ pc[r] = "robots"
    /\ \E outcome \in RobotsOutcomes : RobotsFetched(r, outcome)
    /\ UNCHANGED <<audits, findingRows, metricRows, created, scorer, billing, units>>

\* Lines 435-440, robots.txt answering 200.
RobotsFound(r) ==
    /\ pc[r] = "robots"
    /\ RobotsFetched(r, Urlopen(200, EmptyPage, 0))
    /\ UNCHANGED <<audits, findingRows, metricRows, created, scorer, billing, units>>

\* Lines 442-459: findings, score, the fields of the instance, the region markers.
Evaluate(r) ==
    /\ pc[r] = "evaluate"
    /\ IF EvaluateRaises(loc[r].page) THEN Raise(r, S_none_strip)
       ELSE LET l == loc[r]
                findings == _evaluate_findings(l.page, l.status, l.response_time,
                                               l.robots_status, l.link_statuses)
                score == _calculate_score(l.page, findings)
            IN /\ loc' = [loc EXCEPT ![r] = [@ EXCEPT
                        !.findings = findings,
                        !.score = score,
                        !.audit.row = AssignCompleted(@, l.page, score, l.response_time, l.body),
                        !.region_markers = _collect_region_markers(l.target_url, l.absolute_links)]]
               /\ Goto(r, "history")
    /\ UNCHANGED <<audits, findingRows, metricRows, requests, created, scorer, billing, units>>

\* Lines 460-461: the score history query and audit.metadata = metadata
History(r) ==
    /\ pc[r] = "history"
    /\ LET l == loc[r]
           score_history == _previous_scores(audits, l.website, l.audit.pk)
       IN loc' = [loc EXCEPT ![r].audit.row.metadata =
                    Metadata(l.status, l.page, l.link_statuses, l.robots_status,
                             l.region_markers, score_history)]
    /\ Goto(r, "save")
    /\ UNCHANGED <<audits, findingRows, metricRows, requests, created, scorer, billing, units>>

\* Model.save() writing to the row created last.
SaveRow_latest(rows, instance) == [rows EXCEPT ![Len(rows)] = instance.row]

\* Model.save(): every field of the instance is written to its row.
SaveRow(rows, instance) == [rows EXCEPT ![instance.pk] = instance.row]

\* Line 462: audit.save()
Save(r) ==
    /\ pc[r] = "save"
    /\ audits' = SaveRow(audits, loc[r].audit)
    /\ loc' = [loc EXCEPT ![r].n = 0]
    /\ Goto(r, IF loc[r].findings = <<>> THEN "metrics" ELSE "findings")
    /\ UNCHANGED <<findingRows, metricRows, requests, created, scorer, billing, units>>

\* Lines 464-465: one iteration of the loop that creates the findings.
CreateFinding(r) ==
    /\ pc[r] = "findings"
    /\ findingRows' = Append(findingRows, FindingRow(loc[r].audit.pk, loc[r].findings[loc[r].n + 1]))
    /\ loc' = [loc EXCEPT ![r].n = @ + 1]
    /\ Goto(r, IF loc[r].n + 1 = Len(loc[r].findings) THEN "metrics" ELSE "findings")
    /\ UNCHANGED <<audits, metricRows, requests, created, scorer, billing, units>>

\* Lines 467-475: AuditMetric.objects.bulk_create([...]), one INSERT statement.
CreateMetrics(r) ==
    /\ pc[r] = "metrics"
    /\ metricRows' = metricRows \o MetricRows(loc[r].audit.pk, loc[r].status, loc[r].response_time,
                                              loc[r].body, loc[r].absolute_links, loc[r].page)
    /\ Goto(r, "done")
    /\ UNCHANGED <<audits, findingRows, loc, requests, created, scorer, billing, units>>

\* Statements of the try block that query or write the database.
DatabaseSteps == {"history", "save", "findings", "metrics"}

\* The database rejects the statement the caller is about to execute.
DatabaseError(r) ==
    /\ pc[r] \in DatabaseSteps
    /\ Raise(r, S_database_error)
    /\ UNCHANGED <<audits, findingRows, metricRows, requests, created, scorer, billing, units>>

\* Lines 477-480: except Exception as exc
Except(r) ==
    /\ pc[r] = "except"
    /\ LET instance == [loc[r].audit EXCEPT !.row = AssignFailed(@, loc[r].exc)] IN
        /\ loc' = [loc EXCEPT ![r].audit = instance]
        /\ audits' = SaveRow(audits, instance)
    /\ Goto(r, "done")
    /\ UNCHANGED <<findingRows, metricRows, requests, created, scorer, billing, units>>

\* run_audit, called by any of the callers.
Next ==
    \/ \E r \in Procs : Create(r)
    \/ \E r \in Procs : FetchTarget(r)
    \/ \E r \in Procs : Parse(r)
    \/ \E r \in Procs : Absolutize(r)
    \/ \E r \in Procs : SampleLink(r)
    \/ \E r \in Procs : SampleReturn(r)
    \/ \E r \in Procs : Robots(r)
    \/ \E r \in Procs : Evaluate(r)
    \/ \E r \in Procs : History(r)
    \/ \E r \in Procs : Save(r)
    \/ \E r \in Procs : CreateFinding(r)
    \/ \E r \in Procs : CreateMetrics(r)
    \/ \E r \in Procs : DatabaseError(r)
    \/ \E r \in Procs : Except(r)

Spec == Init /\ [][Next]_vars

(***************************************************************************)
(* run_audit of a site whose pages carry from no link to more links than   *)
(* _sample_link_health samples.                                            *)
(***************************************************************************)

SampleInit == InitFrom({EmptyDb}, {1})

SampleNext ==
    \/ \E r \in Procs : Create(r)
    \/ \E r \in Procs : FetchLinkPage(r)
    \/ \E r \in Procs : Parse(r)
    \/ \E r \in Procs : Absolutize(r)
    \/ \E r \in Procs : SampleLink(r)
    \/ \E r \in Procs : SampleReturn(r)
    \/ \E r \in Procs : Robots(r)
    \/ \E r \in Procs : Evaluate(r)
    \/ \E r \in Procs : History(r)
    \/ \E r \in Procs : Save(r)
    \/ \E r \in Procs : CreateFinding(r)
    \/ \E r \in Procs : CreateMetrics(r)
    \/ \E r \in Procs : DatabaseError(r)
    \/ \E r \in Procs : Except(r)

SampleSpec == SampleInit /\ [][SampleNext]_vars

(***************************************************************************)
(* audit_dashboard of views.py: one POST request of a signed-in user, from *)
(* the subscription lookup to the usage count after run_audit.             *)
(***************************************************************************)

\* The UserSubscription tables a request may find: no row, or one row of the user.
SubscriptionTables ==
    {<<>>}
        \cup {<<SubscriptionRow("u1", "free-trial", period_end - 7, period_end, used)>> :
                    period_end \in {Now - 1, Now + 3}, used \in {0, 1}}
        \cup {<<SubscriptionRow("u1", "growth", Now - 20, Now + 10, used)>> : used \in {19, 20}}
        \cup {<<SubscriptionRow("u1", "scale", Now - 20, Now + 10, 3)>>}

\* Tables with prior audits and subscriptions; the users named in starters
\* are about to post to audit_dashboard.
ViewInitWith(starters) ==
    /\ \E db \in PriorDbs :
        /\ audits = db.audits
        /\ findingRows = db.findingRows
        /\ metricRows = db.metricRows
    /\ subs \in SubscriptionTables
    /\ \E staff \in BOOLEAN :
        view = [r \in Procs |-> IF r \in starters
                                 THEN [user |-> "u1", is_staff |-> staff,
                                       subscription |-> NoSubscription]
                                 ELSE NoView]
    /\ pc = [r \in Procs |-> IF r \in starters THEN "request" ELSE "off"]
    /\ loc = [r \in Procs |-> InitLoc]
    /\ requests = [r \in Procs |-> <<>>]
    /\ created = [r \in Procs |-> <<>>]
    /\ score_findings = <<>>
    /\ score_result = NoneI
    /\ UnitsIdle

ViewInit == ViewInitWith({1})

\* Line 227: subscription = _resolve_subscription(current_user)
DashboardResolve(r) ==
    /\ pc[r] = "request"
    /\ LET res == _resolve_subscription(subs, audits, view[r].user) IN
        /\ subs' = res.table
        /\ view' = [view EXCEPT ![r].subscription = res.instance]
    /\ Goto(r, "post")
    /\ UNCHANGED <<audits, findingRows, metricRows, loc, requests, created, scorer, units>>

\* Lines 234-243: the subscription is resolved again and checked for capacity.
DashboardCheck(r) ==
    /\ pc[r] = "post"
    /\ LET res == _resolve_subscription(subs, audits, view[r].user) IN
        /\ subs' = res.table
        /\ view' = [view EXCEPT ![r].subscription = res.instance]
        /\ Goto(r, IF view[r].is_staff \/ has_capacity(res.instance) THEN "idle" ELSE "responded")
    /\ UNCHANGED <<audits, findingRows, metricRows, loc, requests, created, scorer, units>>

\* Lines 264-274: run_audit has returned; the usage is counted.
DashboardReport(r) ==
    /\ pc[r] = "done"
    /\ view[r] # NoView
    /\ LET res == ReportUsage(subs, view[r].subscription, loc[r].audit.row.status) IN
        /\ subs' = res.table
        /\ view' = [view EXCEPT ![r].subscription = res.instance]
    /\ Goto(r, "responded")
    /\ UNCHANGED <<audits, findingRows, metricRows, loc, requests, created, scorer, units>>

ViewNext ==
    \/ \E r \in Procs : DashboardResolve(r)
    \/ \E r \in Procs : DashboardCheck(r)
    \/ \E r \in Procs : Create(r)
    \/ \E r \in Procs : FetchSite(r)
    \/ \E r \in Procs : Parse(r)
    \/ \E r \in Procs : Absolutize(r)
    \/ \E r \in Procs : SampleLink(r)
    \/ \E r \in Procs : SampleReturn(r)
    \/ \E r \in Procs : Robots(r)
    \/ \E r \in Procs : Evaluate(r)
    \/ \E r \in Procs : History(r)
    \/ \E r \in Procs : Save(r)
    \/ \E r \in Procs : CreateFinding(r)
    \/ \E r \in Procs : CreateMetrics(r)
    \/ \E r \in Procs : DatabaseError(r)
    \/ \E r \in Procs : Except(r)
    \/ \E r \in Procs : DashboardReport(r)

ViewSpec == ViewInit /\ [][ViewNext]_vars

(***************************************************************************)
(* The admin actions on AuditRun (admin.py), taken while run_audit runs.   *)
(***************************************************************************)

\* int(round(total / count)): Python rounds a half to the even neighbour.
RoundedMean(total, count) ==
    LET q == total \div count
        rem == total % count
    IN IF 2 * rem < count THEN q
       ELSE IF 2 * rem > count THEN q + 1
       ELSE IF q % 2 = 0 THEN q ELSE q + 1

RECURSIVE Sum(_)
Sum(numbers) == IF numbers = <<>> THEN 0 ELSE Head(numbers) + Sum(Tail(numbers))

\* Lines 123-137 of recalculate_score: the row of a run after the action.
Recalculated(row, metrics) ==
    IF metrics = <<>> THEN row
    ELSE LET numeric_values == [i \in 1..Len(metrics) |-> IntOf(metrics[i].value)]
             new_score == Max(0, Min(100, RoundedMean(Sum(numeric_values), Len(numeric_values))))
         IN [row EXCEPT !.score = new_score]

\* AuditRunAdmin.mark_completed: queryset.update(status=AuditRun.STATUS_COMPLETED)
mark_completed ==
    /\ \E queryset \in (SUBSET (1..Len(audits))) \ {{}} :
        audits' = [pk \in 1..Len(audits) |->
                    IF pk \in queryset THEN [audits[pk] EXCEPT !.status = STATUS_COMPLETED]
                    ELSE audits[pk]]
    /\ UNCHANGED <<findingRows, metricRows, pc, loc, requests, created, scorer, billing, units>>

\* AuditRunAdmin.recalculate_score: the score of each selected run that has
\* metrics becomes the clamped mean of their values.
recalculate_score ==
    /\ \E queryset \in (SUBSET (1..Len(audits))) \ {{}} :
        audits' = [pk \in 1..Len(audits) |->
                    IF pk \in queryset THEN Recalculated(audits[pk], RowsOf(metricRows, pk))
                    ELSE audits[pk]]
    /\ UNCHANGED <<findingRows, metricRows, pc, loc, requests, created, scorer, billing, units>>

AdminNext ==
    \/ \E r \in Procs : Create(r)
    \/ \E r \in Procs : FetchSite(r)
    \/ \E r \in Procs : Parse(r)
    \/ \E r \in Procs : Absolutize(r)
    \/ \E r \in Procs : SampleLink(r)
    \/ \E r \in Procs : SampleReturn(r)
    \/ \E r \in Procs : Robots(r)
    \/ \E r \in Procs : Evaluate(r)
    \/ \E r \in Procs : History(r)
    \/ \E r \in Procs : Save(r)
    \/ \E r \in Procs : CreateFinding(r)
    \/ \E r \in Procs : CreateMetrics(r)
    \/ \E r \in Procs : DatabaseError(r)
    \/ \E r \in Procs : Except(r)
    \/ mark_completed
    \/ recalculate_score

AdminSpec == Init /\ [][AdminNext]_vars

(***************************************************************************)
(* The scorer on its own: _calculate_score applied to finding lists of any *)
(* severity, recognised or not.                                            *)
(***************************************************************************)

\* Longest finding list handed to the scorer.
MaxFindings == 6

\* Severity values of the findings handed to the scorer; "critical" is not a known severity.
ScoreSeverities == {SEVERITY_LOW, SEVERITY_MEDIUM, SEVERITY_HIGH, "critical"}

ScoreInit ==
    /\ audits = <<>>
    /\ findingRows = <<>>
    /\ metricRows = <<>>
    /\ pc = [r \in Procs |-> "off"]
    /\ loc = [r \in Procs |-> InitLoc]
    /\ requests = [r \in Procs |-> <<>>]
    /\ created = [r \in Procs |-> <<>>]
    /\ score_findings = <<>>
    /\ score_result = _calculate_score(ParsedPage(<<>>), <<>>)
    /\ subs = <<>>
    /\ view = [r \in Procs |-> NoView]
    /\ UnitsIdle

\* One more finding is added to the list and the list is scored again.
ScoreAppend ==
    /\ Len(score_findings) < MaxFindings
    /\ \E severity \in ScoreSeverities :
        score_findings' = Append(score_findings,
                                 Finding("seo", severity, "title", <<"description">>, "recommendation"))
    /\ score_result' = _calculate_score(ParsedPage(<<>>), score_findings')
    /\ UNCHANGED <<audits, findingRows, metricRows, pc, loc, requests, created, billing, units>>

ScoreNext == ScoreAppend

ScoreSpec == ScoreInit /\ [][ScoreNext]_vars

(***************************************************************************)
(* Properties                                                              *)
(***************************************************************************)

\* run_audit of caller r has returned.
Returned(r) == pc[r] = "done"

\* run_audit of caller r has returned and no statement of its try block raised.
ReturnedClean(r) == pc[r] = "done" /\ loc[r].raised_at = ""

Categories(findings) == [i \in 1..Len(findings) |-> findings[i].category]

Labels(metrics) == [i \in 1..Len(metrics) |-> metrics[i].label]

MetricLabels == <<"Response status", "Response time (ms)", "HTML bytes",
                  "Total links parsed", "Images parsed">>

\* The calls of _safe_request made by _sample_link_health for caller r, in order.
LinkRequests(r) == SelectSeq(requests[r], LAMBDA q : q.caller = "_sample_link_health")

\* _sample_link_health of caller r has returned.
SamplingDone(r) ==
    /\ pc[r] \notin {"off", "idle", "fetch", "parse", "absolutize", "sample"}
    /\ loc[r].raised_at \notin {"fetch", "parse", "absolutize"}

\* _evaluate_findings of caller r has returned.
Evaluated(r) ==
    \/ pc[r] \in DatabaseSteps
    \/ pc[r] \in {"except", "done"} /\ loc[r].raised_at \in DatabaseSteps \cup {""}

\* The elements of seq without repetitions, in the order of their first occurrence.
RECURSIVE Distinct(_)
Distinct(seq) ==
    IF seq = <<>> THEN <<>>
    ELSE LET init == Distinct(SubSeq(seq, 1, Len(seq) - 1))
             last == seq[Len(seq)]
         IN IF \E i \in 1..Len(init) : init[i] = last THEN init ELSE Append(init, last)

\* The calls of _safe_request for /robots.txt made by caller r.
RobotsRequests(r) ==
    IF requests[r] = <<>> THEN <<>>
    ELSE SelectSeq(Tail(requests[r]), LAMBDA q : q.caller = "run_audit")

\* The findings of a list that carry the given title.
Titled(findings, title) == SelectSeq(findings, LAMBDA f : f.title = title)

\* a is obtained from b by deleting elements.
RECURSIVE IsSubsequence(_, _)
IsSubsequence(a, b) ==
    IF a = <<>> THEN TRUE
    ELSE IF b = <<>> THEN FALSE
    ELSE IF Head(a) = Head(b) THEN IsSubsequence(Tail(a), Tail(b))
    ELSE IsSubsequence(a, Tail(b))

\* The categories of the eight rules, in the order the claim gives.
RuleOrder == <<"availability", "performance", "seo", "branding",
               "structure", "accessibility", "links", "seo">>

\* The titles of the findings of the eight rules.
RuleTitles == <<"Homepage is unreachable", "Slow initial response", "Missing meta description",
                "No favicon detected", "No H1 heading", "Images without alternative text",
                "Broken links detected", "robots.txt not reachable">>

\* _parse_html of caller r has returned.
Parsed(r) ==
    /\ pc[r] \notin {"off", "idle", "fetch", "parse"}
    /\ loc[r].raised_at \notin {"fetch", "parse"}

\* The whitespace-separated tokens of a text.
RECURSIVE Tokens(_)
Tokens(text) ==
    LET t == Strip(text) IN
    IF t = <<>> THEN <<>>
    ELSE LET stops == {i \in 1..Len(t) : t[i] \in Whitespace}
             n == IF stops = {} THEN Len(t) + 1
                  ELSE CHOOSE i \in stops : \A j \in stops : i <= j
         IN <<SubSeq(t, 1, n - 1)>> \o Tokens(SubSeq(t, n, Len(t)))

\* The <link> start tags of a body that carry a rel and an href, in document order.
LinkTags(body) ==
    SelectSeq(body.events,
              LAMBDA ev : /\ ev.kind = "start"
                          /\ ev.tag = "link"
                          /\ Truthy(DictGet(ev.attrs, "rel", NoneS))
                          /\ Truthy(DictGet(ev.attrs, "href", NoneS)))

\* The meta key the claim gives for a rel value.
LinkKey(rel) == <<"l", "i", "n", "k", ":", ":">> \o Join(<<",">>, Tokens(rel))

\* A link cut to at most 80 characters, the last one an ellipsis when cut.
Cut(link) == IF Len(link) <= 80 THEN link ELSE SubSeq(link, 1, 79) \o <<"...">>

\* C1: every audit row is created with status pending before the invocation
\* has issued a request, and a persisted status that has left pending never
\* changes again (in particular not from completed to failed).
C1_StatusChangesOnce ==
    [][/\ \A pk \in 1..Len(audits) :
            audits[pk].status # STATUS_PENDING => audits'[pk].status = audits[pk].status
       /\ \A pk \in (Len(audits) + 1)..Len(audits') :
            /\ audits'[pk].status = STATUS_PENDING
            /\ \A r \in Procs : created'[r] = <<pk>> => requests'[r] = <<>>]_vars

\* C2: in every reachable state an audit row with status failed has no
\* finding row and no metric row.
C2_FailedHasNoFindingsNoMetrics ==
    \A pk \in 1..Len(audits) :
        audits[pk].status = STATUS_FAILED =>
            RowsOf(findingRows, pk) = <<>> /\ RowsOf(metricRows, pk) = <<>>

\* C3: when the target fetch raised, run_audit returns (it does not raise) a
\* record with status failed whose summary is "Audit failed: " followed by the
\* message of the error, the record is the persisted row, it has no finding
\* and no metric, and the invocation created exactly that one audit row.
C3_FetchFailureHandled ==
    \A r \in Procs :
        (loc[r].raised_at = "fetch") =>
            /\ pc[r] \in {"except", "done"}
            /\ requests[r][1].kind = "transport_error"
            /\ created[r] = <<loc[r].audit.pk>>
            /\ RowsOf(findingRows, loc[r].audit.pk) = <<>>
            /\ RowsOf(metricRows, loc[r].audit.pk) = <<>>
            /\ Returned(r) =>
                LET audit == loc[r].audit IN
                /\ audit.row.status = STATUS_FAILED
                /\ StartsWith(audit.row.summary, S_audit_failed)
                /\ SubSeq(audit.row.summary, Len(S_audit_failed) + 1, Len(audit.row.summary))
                        \in TransportErrors
                /\ audit.row.summary = S_audit_failed \o loc[r].exc
                /\ audits[audit.pk] = audit.row

C3_Witness ==
    \E r \in Procs : Returned(r) /\ loc[r].raised_at = "fetch"
                        /\ audits[loc[r].audit.pk].status = STATUS_FAILED

\* C4: for the target answering 200 within 2000 ms with the page that has a
\* title, a meta description, a link rel="icon", an h1 and only images with alt
\* text, and robots.txt answering 200, the audit is completed with the title as
\* summary, score 100, no finding and exactly the five metrics.
C4_GoodPageScores100 ==
    \A r \in Procs :
        (/\ ReturnedClean(r)
         /\ loc[r].body = GoodPage
         /\ loc[r].status = 200
         /\ loc[r].response_time <= 2000
         /\ loc[r].robots_status = 200) =>
            LET pk == loc[r].audit.pk IN
            /\ audits[pk].status = STATUS_COMPLETED
            /\ audits[pk].summary = <<"E", "x", "a", "m", "p", "l", "e", " ", "P", "a", "g", "e">>
            /\ audits[pk].score = 100
            /\ RowsOf(findingRows, pk) = <<>>
            /\ Labels(RowsOf(metricRows, pk)) = MetricLabels

\* C5: no reachable state of the tables holds an audit row with status
\* completed that lacks one of its five metrics or one of the findings its
\* invocation evaluated.
C5_PersistedAsUnit ==
    \A pk \in 1..Len(audits) :
        audits[pk].status = STATUS_COMPLETED =>
            /\ Labels(RowsOf(metricRows, pk)) = MetricLabels
            /\ \A r \in Procs :
                loc[r].audit.pk = pk =>
                    RowsOf(findingRows, pk) =
                        [i \in 1..Len(loc[r].findings) |-> FindingRow(pk, loc[r].findings[i])]

\* C6: for every finding list, of any length and any severity values, the
\* score is an integer between 0 and 100.
C6_ScoreInRange == score_result \in 0..100

C6_Witness ==
    /\ score_result = 0
    /\ SumPenalties(score_findings) > ScoreBase
    /\ \E i \in 1..Len(score_findings) : score_findings[i].severity = "critical"

\* C7: adding a finding to a finding list never raises the score.
C7_ScoreMonotone ==
    [][(/\ Len(score_findings') = Len(score_findings) + 1
        /\ SubSeq(score_findings', 1, Len(score_findings)) = score_findings)
            => score_result' <= score_result]_vars

C7_Witness ==
    /\ Len(score_findings) = 2
    /\ score_findings[2].severity = "critical"
    /\ score_result < _calculate_score(ParsedPage(<<>>), SubSeq(score_findings, 1, 1))

\* C8: the score is max(0, 100 - sum of the penalties 5 (low), 10 (medium),
\* 20 (high), 5 (any other severity)); the empty list scores 100.
C8_ScoreFrom100 ==
    /\ score_result = Max(0, 100 - SumPenalties(score_findings))
    /\ score_findings = <<>> => score_result = 100

\* C9: for the page without h1 and without meta description whose one sampled
\* link answers 404, and no other rule triggered, the findings are exactly
\* structure, seo, links in that order and the score is 65.
C9_ThreeFindingsScore65 ==
    \A r \in Procs :
        (/\ ReturnedClean(r)
         /\ loc[r].body = PlainPage
         /\ loc[r].status = 200
         /\ loc[r].response_time <= 2000
         /\ loc[r].robots_status # NoneI
         /\ Len(loc[r].link_statuses) = 1
         /\ loc[r].link_statuses[1][2] = 404) =>
            /\ Categories(loc[r].findings) = <<"structure", "seo", "links">>
            /\ Categories(RowsOf(findingRows, loc[r].audit.pk)) = <<"structure", "seo", "links">>
            /\ audits[loc[r].audit.pk].score = 65

\* C10: an HTTP error answer of the target (status >= 400, or an HTTPError
\* without code, status 0) is returned by the fetcher with its status and body
\* and is not raised; when no later statement raises, the audit is completed
\* and its findings hold exactly one availability finding, of severity high,
\* if the status is >= 400 or 0, and none if the status is in 1..399.
C10_HttpErrorIsNotFailure ==
    \A r \in Procs :
        LET availability == SelectSeq(RowsOf(findingRows, loc[r].audit.pk),
                                      LAMBDA f : f.category = "availability")
        IN
        /\ (requests[r] # <<>> /\ requests[r][1].kind = "http_error") =>
                /\ loc[r].raised_at # "fetch"
                /\ pc[r] # "fetch"
                /\ loc[r].status = IF requests[r][1].code = NoneI THEN 0 ELSE requests[r][1].code
                /\ loc[r].body.bytes = requests[r][1].bytes
        /\ ReturnedClean(r) =>
                /\ audits[loc[r].audit.pk].status = STATUS_COMPLETED
                /\ IF loc[r].status >= 400 \/ loc[r].status = 0
                   THEN /\ Len(availability) = 1
                        /\ availability[1].severity = SEVERITY_HIGH
                   ELSE availability = <<>>

C10_Witness ==
    \E r \in Procs :
        /\ ReturnedClean(r)
        /\ requests[r][1].kind = "http_error"
        /\ requests[r][1].code >= 400
        /\ audits[loc[r].audit.pk].status = STATUS_COMPLETED
        /\ \E i \in 1..Len(findingRows) :
            findingRows[i].audit = loc[r].audit.pk /\ findingRows[i].category = "availability"

\* C11: whatever the number of links of the page and whatever each link fetch
\* returns or raises, link sampling calls the fetcher at most 5 times, and its
\* i-th call is for the i-th link of the resolved link list.
C11_SampleAtMostLimit ==
    \A r \in Procs :
        LET fetched == LinkRequests(r)
            links == loc[r].absolute_links
        IN /\ Len(fetched) <= 5
           /\ Len(fetched) <= Len(links)
           /\ \A i \in 1..Len(fetched) : fetched[i].url = links[i]

C11_Witness ==
    \E r \in Procs :
        /\ Returned(r)
        /\ Len(loc[r].absolute_links) > 5
        /\ Len(LinkRequests(r)) = 5
        /\ \E i, j \in 1..5 : /\ LinkRequests(r)[i].kind = "transport_error"
                               /\ LinkRequests(r)[j].kind = "http_error"

\* C12: a link fetch that raises is recorded as status 0 for that link and
\* raises nothing in run_audit; once sampling has returned, every one of the
\* first 5 links was fetched and has an entry in the mapping, also the links
\* after a failed one; when no other statement raises, the audit is completed.
C12_LinkFailureRecordedAsZero ==
    \A r \in Procs :
        LET fetched == LinkRequests(r)
            samples == loc[r].link_statuses
            LastFor(url) == CHOOSE i \in 1..Len(fetched) :
                                /\ fetched[i].url = url
                                /\ \A j \in (i + 1)..Len(fetched) : fetched[j].url # url
        IN /\ \A i \in 1..Len(fetched) :
                /\ DictHas(samples, fetched[i].url)
                /\ fetched[LastFor(fetched[i].url)].kind = "transport_error"
                        => DictGet(samples, fetched[i].url, NoneI) = 0
           /\ loc[r].raised_at # "sample"
           /\ SamplingDone(r) =>
                /\ Len(fetched) = Min(5, Len(loc[r].absolute_links))
                /\ \A i \in 1..Min(5, Len(loc[r].absolute_links)) :
                        DictHas(samples, loc[r].absolute_links[i])
           /\ ReturnedClean(r) => audits[loc[r].audit.pk].status = STATUS_COMPLETED

C12_Witness ==
    \E r \in Procs :
        /\ ReturnedClean(r)
        /\ Len(LinkRequests(r)) = 5
        /\ LinkRequests(r)[1].kind = "transport_error"
        /\ LinkRequests(r)[5].kind = "response"
        /\ DictGet(loc[r].link_statuses, LinkRequests(r)[1].url, NoneI) = 0
        /\ audits[loc[r].audit.pk].status = STATUS_COMPLETED

\* C13: after the robots.txt request the robots status is None exactly when
\* the request raised or was answered with a status >= 400; the request never
\* raises in run_audit, and when no other statement raises the audit is
\* completed; the evaluated findings hold the finding "robots.txt not reachable"
\* (once, category seo, severity low) if and only if the robots status is None.
C13_RobotsAbsent ==
    \A r \in Procs :
        /\ loc[r].raised_at # "robots"
        /\ RobotsRequests(r) # <<>> =>
            LET q == RobotsRequests(r)[1] IN
            /\ Len(RobotsRequests(r)) = 1
            /\ (loc[r].robots_status = NoneI) <=>
                    \/ q.kind = "transport_error"
                    \/ q.kind = "http_error" /\ q.code >= 400
            /\ loc[r].robots_status # NoneI =>
                    loc[r].robots_status = IF q.code = NoneI THEN 0 ELSE q.code
        /\ ReturnedClean(r) => audits[loc[r].audit.pk].status = STATUS_COMPLETED
        /\ Evaluated(r) =>
            LET found == Titled(loc[r].findings, "robots.txt not reachable") IN
            IF loc[r].robots_status = NoneI
            THEN /\ Len(found) = 1
                 /\ found[1].category = "seo"
                 /\ found[1].severity = SEVERITY_LOW
            ELSE found = <<>>

C13_Witness ==
    \E r \in Procs :
        /\ ReturnedClean(r)
        /\ RobotsRequests(r)[1].kind = "http_error"
        /\ RobotsRequests(r)[1].code = 400
        /\ audits[loc[r].audit.pk].status = STATUS_COMPLETED
        /\ Titled(RowsOf(findingRows, loc[r].audit.pk), "robots.txt not reachable") # <<>>

\* C14: every evaluated finding list has at most 8 findings, at most one per
\* rule, and its categories are a subsequence of availability, performance,
\* seo, branding, structure, accessibility, links, seo; each rule decides on
\* its own input alone: a rule on the response status, the response time, the
\* headings or the robots status emits its finding exactly when its condition
\* holds, whatever the other rules emit.
C14_EightRulesInOrder ==
    \A r \in Procs :
        Evaluated(r) =>
            LET findings == loc[r].findings IN
            /\ Len(findings) <= 8
            /\ IsSubsequence(Categories(findings), RuleOrder)
            /\ \A i \in 1..Len(findings) : \E k \in 1..8 :
                    findings[i].title = RuleTitles[k] /\ findings[i].category = RuleOrder[k]
            /\ \A k \in 1..8 : Len(Titled(findings, RuleTitles[k])) <= 1
            /\ (Titled(findings, RuleTitles[1]) # <<>>) <=> (loc[r].status >= 400 \/ loc[r].status = 0)
            /\ (Titled(findings, RuleTitles[2]) # <<>>) <=> (loc[r].response_time > 2000)
            /\ (Titled(findings, RuleTitles[5]) # <<>>) <=>
                    ~\E i \in 1..Len(loc[r].page.headings) : loc[r].page.headings[i][1] = "h1"
            /\ (Titled(findings, RuleTitles[8]) # <<>>) <=> (loc[r].robots_status = NoneI)

C14_Witness ==
    \E r \in Procs :
        /\ ReturnedClean(r)
        /\ Categories(loc[r].findings) = RuleOrder
        /\ Categories(RowsOf(findingRows, loc[r].audit.pk)) = RuleOrder

\* C15: when run_audit returns without a raised statement, the metric rows of
\* its audit are exactly five, labelled Response status, Response time (ms),
\* HTML bytes, Total links parsed, Images parsed in that order, and their
\* values are the decimal texts of the status of the target request, the
\* measured response time, the number of bytes of the body, the number of
\* resolved links and the number of parsed images.
C15_FiveMetrics ==
    \A r \in Procs :
        ReturnedClean(r) =>
            LET rows == RowsOf(metricRows, loc[r].audit.pk)
                q == requests[r][1]
            IN /\ Labels(rows) = MetricLabels
               /\ \A i \in 1..Len(rows) : rows[i].value # <<>>
               /\ IntOf(rows[1].value) = (IF q.code = NoneI THEN 0 ELSE q.code)
               /\ IntOf(rows[2].value) = loc[r].response_time
               /\ IntOf(rows[3].value) = q.bytes
               /\ IntOf(rows[4].value) = Len(loc[r].absolute_links)
               /\ IntOf(rows[5].value) = Len(loc[r].page.images)

C15_Witness ==
    \E r \in Procs :
        /\ ReturnedClean(r)
        /\ loc[r].body = ImagesPage
        /\ Len(loc[r].page.links) = 2
        /\ RowsOf(metricRows, loc[r].audit.pk)[4].value = <<"1">>
        /\ RowsOf(metricRows, loc[r].audit.pk)[5].value = <<"4">>

\* C18: for every <link rel=R href=H> of a parsed page the meta mapping has
\* the key "link::" followed by the tokens of R joined with commas, holding the
\* href of the first such tag; a page with <link rel="icon" href=...> has the
\* key "link::icon", so a key containing "icon", and its evaluated findings
\* hold no branding finding.
C18_LinkRelKey ==
    \A r \in Procs :
        Parsed(r) =>
            LET tags == LinkTags(loc[r].body)
                meta == loc[r].page.meta
            IN \A i \in 1..Len(tags) :
                LET rel == DictGet(tags[i].attrs, "rel", NoneS)
                    first == CHOOSE j \in 1..Len(tags) :
                                /\ LinkKey(DictGet(tags[j].attrs, "rel", NoneS)) = LinkKey(rel)
                                /\ \A k \in 1..(j - 1) :
                                        LinkKey(DictGet(tags[k].attrs, "rel", NoneS)) # LinkKey(rel)
                IN /\ DictHas(meta, LinkKey(rel))
                   /\ DictGet(meta, LinkKey(rel), NoneS) = DictGet(tags[first].attrs, "href", NoneS)
                   /\ rel = S_icon =>
                        /\ DictHas(meta, S_link_icon)
                        /\ \E k \in 1..Len(meta) : Contains(meta[k][1], S_icon)
                        /\ Evaluated(r) => Titled(loc[r].findings, "No favicon detected") = <<>>

C20_BrokenLinksListed ==
    \A r \in Procs :
        Evaluated(r) =>
            LET fetched == LinkRequests(r)
                sampled == Distinct([i \in 1..Len(fetched) |-> fetched[i].url])
                status(link) == DictGet(loc[r].link_statuses, link, NoneI)
                offending == SelectSeq(sampled, LAMBDA link : status(link) >= 400 \/ status(link) = 0)
                listed == [i \in 1..Min(3, Len(offending)) |-> Cut(offending[i])]
                found == Titled(loc[r].findings, "Broken links detected")
            IN IF offending = <<>> THEN found = <<>>
               ELSE /\ Len(found) = 1
                    /\ found[1].category = "links"
                    /\ found[1].severity = SEVERITY_HIGH
                    /\ found[1].description[2] = Join(<<",", " ">>, listed)
                    /\ \A i \in 1..Len(listed) : Len(listed[i]) <= 80

C20_Witness ==
    \E r \in Procs :
        /\ ReturnedClean(r)
        /\ Len(LinkRequests(r)) = 5
        /\ \A i \in 1..5 : LinkRequests(r)[i].kind # "response"
        /\ Len(LinkRequests(r)[1].url) > 80
        /\ Len(LinkRequests(r)[2].url) = 80
        /\ \E i \in 1..Len(findingRows) :
            /\ findingRows[i].audit = loc[r].audit.pk
            /\ findingRows[i].category = "links"
            /\ Len(findingRows[i].description[2]) = 80 + 2 + 80 + 2 + Len(LinkRequests(r)[3].url)

\* C16: audits_used of a subscription row is raised only by the step of a
\* dashboard request that follows the return of its run_audit, only when the
\* returned record is completed, only for the subscription of that request and
\* by exactly one; a request takes that step once; the steps of a run_audit
\* and the step after a record returned failed leave every subscription
\* row as it is.
C16_UsageCountedAfterCompleted ==
    [][/\ \A pk \in 1..Len(subs) :
            subs'[pk].audits_used > subs[pk].audits_used =>
                \E r \in Procs :
                    /\ pc[r] = "done" /\ pc'[r] = "responded"
                    /\ loc[r].audit.row.status = STATUS_COMPLETED
                    /\ view[r].subscription.pk = pk
                    /\ subs'[pk].audits_used = subs[pk].audits_used + 1
       /\ subs' # subs =>
                \E r \in Procs :
                    /\ pc'[r] # pc[r]
                    /\ \/ pc[r] \in {"request", "post"}
                       \/ pc[r] = "done" /\ loc[r].audit.row.status = STATUS_COMPLETED
       /\ \A r \in Procs : pc[r] = "responded" => pc'[r] = "responded"]_vars

C16_Witness ==
    \E r \in Procs :
        /\ pc[r] = "responded"
        /\ ~view[r].is_staff
        /\ loc[r].audit.row.status = STATUS_COMPLETED
        /\ audits[loc[r].audit.pk].status = STATUS_COMPLETED
        /\ view[r].subscription.row.plan = "growth"
        /\ subs[view[r].subscription.pk].audits_used = 20

\* C17: in every step of run_audit, of the admin action mark_completed and of
\* the admin score recalculation, an audit row with status failed does not
\* become completed and an audit row with status completed keeps its status.
C17_StatusTerminal ==
    [][\A pk \in 1..Len(audits) :
            /\ audits[pk].status = STATUS_FAILED => audits'[pk].status # STATUS_COMPLETED
            /\ audits[pk].status = STATUS_COMPLETED => audits'[pk].status = STATUS_COMPLETED]_vars

(***************************************************************************)
(* The parser on its own: HTMLParser.feed makes one callback after another  *)
(* on one _PageParser (services.py:282-289).                                *)
(***************************************************************************)

\* Largest number of callbacks fed to the parser.
MaxEvents == 5

S_Foo == <<"F", "o", "o">>

S_Bar == <<"B", "a", "r">>

S_Foo_space == <<"F", "o", "o", " ">>

S_slash_x == <<"/", "x">>

\* <a href="/x">, <a href="">, <a>
AnchorEvents == {Start("a", <<<<"href", S_slash_x>>>>),
                 Start("a", <<<<"href", <<>>>>>>),
                 Start("a", <<>>)}

\* The callbacks feed makes on <title>, </title>, <h1>, </h1>, <h2>, </h2>, <b>,
\* </b>, the three anchors and the text chunks "Foo", "Bar", "Foo " and " ".
ParserEvents ==
    {Start("title", <<>>), End("title"), Start("h1", <<>>), End("h1"),
     Start("h2", <<>>), End("h2"), Start("b", <<>>), End("b")}
    \cup AnchorEvents
    \cup {Data(S_Foo), Data(S_Bar), Data(S_Foo_space), Data(<<" ">>)}

ParserInit ==
    /\ audits = <<>>
    /\ findingRows = <<>>
    /\ metricRows = <<>>
    /\ pc = [r \in Procs |-> "off"]
    /\ loc = [r \in Procs |-> InitLoc]
    /\ requests = [r \in Procs |-> <<>>]
    /\ created = [r \in Procs |-> <<>>]
    /\ score_findings = <<>>
    /\ score_result = NoneI
    /\ subs = <<>>
    /\ view = [r \in Procs |-> NoView]
    /\ UnitsIdle

\* feed makes its next callback.
FeedEvent ==
    /\ fed < MaxEvents
    /\ \E ev \in ParserEvents :
        /\ parser' = Dispatch(parser, ev)
        /\ event' = ev
    /\ fed' = fed + 1
    /\ UNCHANGED <<audits, findingRows, metricRows, pc, loc, requests, created, scorer, billing,
                   abs_base, abs_links, abs_result>>

ParserNext == FeedEvent

ParserSpec == ParserInit /\ [][ParserNext]_vars

\* The callback just made is the start of an <a> tag carrying an href attribute.
AnchorWithHref(ev) == ev.kind = "start" /\ ev.tag = "a" /\ DictHas(DictOf(ev.attrs), "href")

\* C21: every callback for an <a> open tag that carries an href attribute, the
\* empty href included, appends that href to the end of page.links, and no other
\* callback changes page.links: one entry per such tag, in document order,
\* duplicates kept.
C21_EveryHrefAppended ==
    [][fed' = fed + 1 =>
        IF AnchorWithHref(event')
        THEN parser'.page.links = Append(parser.page.links, DictGet(DictOf(event'.attrs), "href", NoneS))
        ELSE parser'.page.links = parser.page.links]_vars

\* The innermost open tracked tag, "" when none is open.
Innermost(p) == IF p.stack = <<>> THEN "" ELSE p.stack[Len(p.stack)]

\* C22: every text chunk delivered while <title> is the innermost open tracked
\* tag (text inside nested markup such as <b> included) is appended to the title
\* as it is, no separator added and no character removed, and no other callback
\* changes the title: <title>Foo<b>Bar</b></title> gives "FooBar".
C22_TitleIsConcatenation ==
    [][fed' = fed + 1 =>
        IF event'.kind = "data" /\ Innermost(parser) = "title"
        THEN parser'.page.title =
                (IF Truthy(parser.page.title) THEN parser.page.title ELSE <<>>) \o event'.data
        ELSE parser'.page.title = parser.page.title]_vars

\* The tags whose text the parser collects.
Tracked == {"title", "h1", "h2", "h3"}

\* C23: the stack holds only title, h1, h2 and h3; an open tag changes it only
\* by pushing a tracked tag; a close tag pops it only when it equals the top
\* and every other close tag leaves it unchanged; a text chunk leaves the stack
\* alone and is attributed to the innermost open tracked tag only (to the title
\* when that is title, to one heading of that tag otherwise, to nothing when no
\* tracked tag is open), whatever unclosed tags lie below the top.
C23_StackDiscipline ==
    [][fed' = fed + 1 =>
        LET ev == event'
            s == parser.stack
            top == Innermost(parser)
        IN /\ \A i \in 1..Len(parser'.stack) : parser'.stack[i] \in Tracked
           /\ ev.kind = "start" =>
                parser'.stack = IF ev.tag \in Tracked THEN Append(s, ev.tag) ELSE s
           /\ ev.kind = "end" =>
                /\ parser'.stack = IF s # <<>> /\ top = ev.tag THEN SubSeq(s, 1, Len(s) - 1) ELSE s
                /\ parser'.page = parser.page
           /\ ev.kind = "data" =>
                /\ parser'.stack = s
                /\ parser'.page = [parser.page EXCEPT !.title = parser'.page.title,
                                                      !.headings = parser'.page.headings]
                /\ top = "" => parser'.page = parser.page
                /\ top = "title" => parser'.page.headings = parser.page.headings
                /\ top \in {"h1", "h2", "h3"} =>
                    /\ parser'.page.title = parser.page.title
                    /\ \/ parser'.page.headings = parser.page.headings
                       \/ parser'.page.headings =
                            Append(parser.page.headings, <<top, Strip(ev.data)>>)]_vars

\* <title>Foo<h1>Bar: the title is never closed, and the text of the h1 opened
\* after it is a heading and no part of the title.
C23_Witness ==
    /\ parser.stack = <<"title", "h1">>
    /\ event = Data(S_Bar)
    /\ parser.page.title = S_Foo
    /\ parser.page.headings = <<<<"h1", S_Bar>>>>

(***************************************************************************)
(* The resolver on its own: _absolutize_links(base_url, links) on a list   *)
(* that grows by one link at a time (services.py:292-301).                  *)
(***************************************************************************)

\* Largest number of links in the list.
MaxLinks == 3

S_page_url == <<"h", "t", "t", "p", "s", ":", "/", "/", "e", "x", "a", "m", "p", "l", "e", ".", "c", "o", "m", "/", "d", "/", "p">>

BaseUrls == {S_example_url, S_page_url}

\* "/a", "b", " /a ", "  ", "", "javascript:x", "JavaScript:x", "//other.org/x"
\* and "https://other.org"
LinkTexts == {<<"/", "a">>, <<"b">>, <<" ", "/", "a", " ">>, <<" ", " ">>, <<>>,
              <<"j", "a", "v", "a", "s", "c", "r", "i", "p", "t", ":", "x">>,
              <<"J", "a", "v", "a", "S", "c", "r", "i", "p", "t", ":", "x">>,
              <<"/", "/", "o", "t", "h", "e", "r", ".", "o", "r", "g", "/", "x">>,
              S_other_url}

AbsInit ==
    /\ audits = <<>>
    /\ findingRows = <<>>
    /\ metricRows = <<>>
    /\ pc = [r \in Procs |-> "off"]
    /\ loc = [r \in Procs |-> InitLoc]
    /\ requests = [r \in Procs |-> <<>>]
    /\ created = [r \in Procs |-> <<>>]
    /\ score_findings = <<>>
    /\ score_result = NoneI
    /\ subs = <<>>
    /\ view = [r \in Procs |-> NoView]
    /\ parser = NewParser
    /\ event = NoEvent
    /\ fed = 0
    /\ abs_base \in BaseUrls
    /\ abs_links = <<>>
    /\ abs_result = _absolutize_links(abs_base, <<>>)

\* One more link is added to the list and the list is resolved again.
AbsAppend ==
    /\ Len(abs_links) < MaxLinks
    /\ \E link \in LinkTexts :
        /\ abs_links' = Append(abs_links, link)
        /\ abs_result' = _absolutize_links(abs_base, abs_links')
    /\ UNCHANGED <<audits, findingRows, metricRows, pc, loc, requests, created, scorer, billing,
                   parser, event, fed, abs_base>>

AbsNext == AbsAppend

AbsSpec == AbsInit /\ [][AbsNext]_vars

\* The result the resolver is said to return: the links that are empty after
\* trimming and those whose trimmed text starts with "javascript:" in any
\* letter case dropped, every other link resolved against the base.
RECURSIVE Resolved(_, _)
Resolved(base_url, links) ==
    IF links = <<>> THEN <<>>
    ELSE LET link == Strip(Head(links))
             rest == Resolved(base_url, Tail(links))
         IN IF link = <<>> \/ StartsWith(Lower(link), S_javascript) THEN rest
            ELSE <<urljoin(base_url, link)>> \o rest

\* C24: _absolutize_links returns, in input order, one absolute URL for every
\* input link except the dropped ones, and it drops every link that is empty
\* after trimming whitespace and every link whose trimmed text starts with
\* "javascript:" in any letter case ("JavaScript:x" and "  " are dropped).
C24_DropsEmptyAndJavascript ==
    abs_result = Resolved(abs_base, abs_links)

C26_FetchOrder ==
    \A r \in Procs :
        LET q == requests[r]
            links == Sampled(loc[r].absolute_links)
        IN /\ Len(q) <= 1 + 5 + 1
           /\ \A i \in 1..Len(q) :
                IF i = 1
                THEN q[i].caller = "run_audit" /\ q[i].url = loc[r].target_url
                ELSE IF i <= 1 + Len(links)
                THEN q[i].caller = "_sample_link_health" /\ q[i].url = links[i - 1]
                ELSE /\ i = Len(links) + 2
                     /\ q[i].caller = "run_audit"
                     /\ q[i].url = urljoin(loc[r].target_url, S_robots_path)
           /\ (q # <<>> /\ q[1].kind = "transport_error") => Len(q) = 1 /\ pc[r] \in {"except", "done"}

\* Seven fetch calls were made, the second and the last of them failed.
C26_Witness ==
    \E r \in Procs :
        /\ Returned(r)
        /\ Len(requests[r]) = 7
        /\ requests[r][2].kind = "transport_error"
        /\ requests[r][7].kind = "transport_error"

(***************************************************************************)
(* Two invocations of run_audit at the same time, for the same website,    *)
(* each statement that touches the network or the database one step.       *)
(***************************************************************************)

ConcDbs == {EmptyDb, DbAfter(<<[outcome |-> STATUS_COMPLETED, website |-> "w1"]>>)}

ConcInit == InitFrom(ConcDbs, {1, 2})

ConcNext ==
    \/ \E r \in Procs : Create(r)
    \/ \E r \in Procs : FetchReachable(r)
    \/ \E r \in Procs : Parse(r)
    \/ \E r \in Procs : Absolutize(r)
    \/ \E r \in Procs : SampleReachableLink(r)
    \/ \E r \in Procs : SampleReturn(r)
    \/ \E r \in Procs : RobotsFound(r)
    \/ \E r \in Procs : Evaluate(r)
    \/ \E r \in Procs : History(r)
    \/ \E r \in Procs : Save(r)
    \/ \E r \in Procs : CreateFinding(r)
    \/ \E r \in Procs : CreateMetrics(r)
    \/ \E r \in Procs : DatabaseError(r)
    \/ \E r \in Procs : Except(r)

ConcSpec == ConcInit /\ [][ConcNext]_vars

\* The score_history entry of the metadata of a row.
ScoreHistory(row) == row.metadata[9][2]

\* The record, findings and metrics of invocation r are what its own inputs
\* (the answers to its own requests) give, whatever the score history is.
OwnResult(r) ==
    LET l == loc[r]
        pk == l.audit.pk
        page == _parse_html(l.body, l.target_url)
        links == _absolutize_links(l.target_url, page.links)
        findings == _evaluate_findings(page, l.status, l.response_time, l.robots_status,
                                       l.link_statuses)
        score == _calculate_score(page, findings)
        row0 == NewAuditRow(l.website, l.target_url, audits[pk].created_by)
    IN /\ audits[pk] =
            [AssignCompleted(row0, page, score, l.response_time, l.body) EXCEPT !.metadata =
                Metadata(l.status, page, l.link_statuses, l.robots_status,
                         _collect_region_markers(l.target_url, links), ScoreHistory(audits[pk]))]
       /\ RowsOf(findingRows, pk) = [i \in 1..Len(findings) |-> FindingRow(pk, findings[i])]
       /\ RowsOf(metricRows, pk) =
            MetricRows(pk, l.status, l.response_time, l.body, links, page)

\* Invocation r takes the step.
Steps(r) == pc'[r] # pc[r] \/ loc'[r] # loc[r]

\* C27: of invocations of run_audit that run at the same time, each creates
\* exactly one record; a step of an invocation changes no record but its own
\* and adds findings and metrics to no record but its own; once an invocation
\* has returned, its record holds what it computed from its own inputs, the
\* score_history metadata being the one entry that may differ with the
\* interleaving.
C27_OwnRecordOnly ==
    /\ [][\A r \in Procs : Steps(r) =>
        /\ IF pc[r] = "idle"
           THEN /\ Len(audits') = Len(audits) + 1
                /\ created'[r] = <<Len(audits')>>
                /\ \A s \in Procs \ {r} : Len(audits') \notin {created[s][i] : i \in 1..Len(created[s])}
           ELSE /\ Len(audits') = Len(audits)
                /\ created'[r] = created[r]
        /\ \A pk \in 1..Len(audits) : audits'[pk] # audits[pk] => created[r] = <<pk>>
        /\ Len(findingRows') >= Len(findingRows)
        /\ SubSeq(findingRows', 1, Len(findingRows)) = findingRows
        /\ \A i \in (Len(findingRows) + 1)..Len(findingRows') : created[r] = <<findingRows'[i].audit>>
        /\ Len(metricRows') >= Len(metricRows)
        /\ SubSeq(metricRows', 1, Len(metricRows)) = metricRows
        /\ \A i \in (Len(metricRows) + 1)..Len(metricRows') : created[r] = <<metricRows'[i].audit>>]_vars
    /\ [](\A r \in Procs : Returned(r) =>
            /\ audits[loc[r].audit.pk] = loc[r].audit.row
            /\ loc[r].raised_at # "" =>
                /\ audits[loc[r].audit.pk].status = STATUS_FAILED
                /\ audits[loc[r].audit.pk].summary = S_audit_failed \o loc[r].exc
            /\ loc[r].raised_at = "" => OwnResult(r))

\* Both invocations have returned without a failure, and the score history of
\* the record created first holds the score of the record created second: the
\* second invocation saved its record before the first ran its history query.
C27_Witness ==
    /\ \A r \in {1, 2} : ReturnedClean(r)
    /\ Len(audits) = 2
    /\ ScoreHistory(audits[1]) # <<>>
    /\ ScoreHistory(audits[2]) = <<>>

(***************************************************************************)
(* The operations of UserSubscription on their own (models.py:247-314),    *)
(* called in any order by callers that each hold one instance.             *)
(***************************************************************************)

\* Largest number of UserSubscription rows.
MaxSubs == 2

\* Largest audits_used an increment is applied to on a plan without quota.
UsageCap == 5

\* The audits of the user stored before: none, one or two.
SubsDbs == {DbAfter([i \in 1..n |-> [outcome |-> STATUS_COMPLETED, website |-> "w1"]]) : n \in 0..2}

\* The callers that hold an instance each.
SubsCallers == {1, 2}

\* The plans a checkout starts a subscription of.
StartPlans == {"free-trial", "scale"}

SubsInit ==
    /\ \E db \in SubsDbs :
        /\ audits = db.audits
        /\ findingRows = db.findingRows
        /\ metricRows = db.metricRows
    /\ subs \in SubscriptionTables
    /\ view = [r \in Procs |-> [user |-> "u1", is_staff |-> FALSE, subscription |-> NoSubscription]]
    /\ pc = [r \in Procs |-> "off"]
    /\ loc = [r \in Procs |-> InitLoc]
    /\ requests = [r \in Procs |-> <<>>]
    /\ created = [r \in Procs |-> <<>>]
    /\ score_findings = <<>>
    /\ score_result = NoneI
    /\ UnitsIdle

\* The caller keeps the instance an operation returned.
Keep(r, res) ==
    /\ subs' = res.table
    /\ view' = [view EXCEPT ![r].subscription = res.instance]
    /\ UNCHANGED <<audits, findingRows, metricRows, pc, loc, requests, created, scorer, units>>

\* UserSubscription.objects.active_for_user(user)
SubsLoad(r) ==
    /\ active_for_user(subs, view[r].user) # NoSubscription
    /\ Keep(r, [table |-> subs, instance |-> active_for_user(subs, view[r].user)])

\* UserSubscription.ensure_trial(user)
SubsEnsureTrial(r) ==
    /\ Len(subs) < MaxSubs
    /\ Keep(r, ensure_trial(subs, audits, view[r].user))

\* UserSubscription.start_new(user, plan)
SubsStartNew(r) ==
    /\ Len(subs) < MaxSubs
    /\ \E plan \in StartPlans : Keep(r, start_new(subs, view[r].user, plan))

\* subscription.increment_usage()
SubsIncrement(r) ==
    /\ view[r].subscription # NoSubscription
    /\ \/ audit_quota(view[r].subscription.row.plan) # NoneI
       \/ view[r].subscription.row.audits_used < UsageCap
    /\ Keep(r, increment_usage(subs, view[r].subscription))

\* subscription.refresh_period()
SubsRefresh(r) ==
    /\ view[r].subscription # NoSubscription
    /\ Keep(r, refresh_period(subs, view[r].subscription))

SubsNext ==
    \/ \E r \in SubsCallers : SubsLoad(r)
    \/ \E r \in SubsCallers : SubsEnsureTrial(r)
    \/ \E r \in SubsCallers : SubsStartNew(r)
    \/ \E r \in SubsCallers : SubsIncrement(r)
    \/ \E r \in SubsCallers : SubsRefresh(r)

SubsSpec == SubsInit /\ [][SubsNext]_vars

\* C28: for every subscription whose plan has a finite audit_quota, audits_used
\* never exceeds the quota and remaining_audits is never negative, after any
\* sequence of ensure_trial, start_new, increment_usage and refresh_period; and
\* no operation takes the audits_used of an instance that equals the quota
\* above it.
C28_UsageWithinQuota ==
    /\ [](\A pk \in 1..Len(subs) :
            audit_quota(subs[pk].plan) # NoneI =>
                /\ subs[pk].audits_used <= audit_quota(subs[pk].plan)
                /\ remaining_audits(Instance(pk, subs[pk])) >= 0)
    /\ [][\A r \in Procs :
            LET self == view[r].subscription IN
            (/\ self # NoSubscription
             /\ audit_quota(self.row.plan) # NoneI
             /\ self.row.audits_used = audit_quota(self.row.plan)
             /\ view'[r].subscription.pk = self.pk)
                => /\ view'[r].subscription.row.audits_used <= self.row.audits_used
                   /\ subs'[self.pk].audits_used <= audit_quota(self.row.plan)]_vars

(***************************************************************************)
(* Two requests of one user to audit_dashboard at the same time            *)
(* (views.py:222-274), each statement that touches the network or the      *)
(* database one step.                                                      *)
(***************************************************************************)

\* The user has no subscription yet, or a trial with no audit used that ends in three days.
RaceTables == {<<>>, <<SubscriptionRow("u1", "free-trial", Now - 4, Now + 3, 0)>>}

RaceInit ==
    /\ audits = <<>>
    /\ findingRows = <<>>
    /\ metricRows = <<>>
    /\ subs \in RaceTables
    /\ view = [r \in Procs |-> IF r \in {1, 2}
                               THEN [user |-> "u1", is_staff |-> FALSE,
                                     subscription |-> NoSubscription]
                               ELSE NoView]
    /\ pc = [r \in Procs |-> IF r \in {1, 2} THEN "request" ELSE "off"]
    /\ loc = [r \in Procs |-> InitLoc]
    /\ requests = [r \in Procs |-> <<>>]
    /\ created = [r \in Procs |-> <<>>]
    /\ score_findings = <<>>
    /\ score_result = NoneI
    /\ UnitsIdle

RaceNext ==
    \/ \E r \in Procs : DashboardResolve(r)
    \/ \E r \in Procs : DashboardCheck(r)
    \/ \E r \in Procs : Create(r)
    \/ \E r \in Procs : FetchReachable(r)
    \/ \E r \in Procs : Parse(r)
    \/ \E r \in Procs : Absolutize(r)
    \/ \E r \in Procs : SampleReachableLink(r)
    \/ \E r \in Procs : SampleReturn(r)
    \/ \E r \in Procs : RobotsFound(r)
    \/ \E r \in Procs : Evaluate(r)
    \/ \E r \in Procs : History(r)
    \/ \E r \in Procs : Save(r)
    \/ \E r \in Procs : CreateFinding(r)
    \/ \E r \in Procs : CreateMetrics(r)
    \/ \E r \in Procs : DatabaseError(r)
    \/ \E r \in Procs : Except(r)
    \/ \E r \in Procs : DashboardReport(r)

RaceSpec == RaceInit /\ [][RaceNext]_vars

\* The audits of the user that were run to completion.
CompletedAudits(user) ==
    {pk \in 1..Len(audits) : audits[pk].created_by = user /\ audits[pk].status = STATUS_COMPLETED}

\* C29: a user who is not staff and whose plan has a finite quota gets, within
\* one billing period, no more audits run to completion than the audit_quota of
\* the plan, also when requests of that user run at the same time.
C29_QuotaEnforced ==
    \A r \in Procs :
        (/\ view[r] # NoView
         /\ ~view[r].is_staff
         /\ view[r].subscription # NoSubscription
         /\ audit_quota(view[r].subscription.row.plan) # NoneI)
            => Cardinality(CompletedAudits(view[r].user)) <= audit_quota(view[r].subscription.row.plan)

\* C30: a record that ends in status failed holds the default result fields
\* (score 0, response_time_ms 0, content_length 0, empty metadata) whichever
\* statement raised: it differs from the pending record that was created only
\* in status and summary.
C30_FailedKeepsDefaults ==
    \A r \in Procs :
        (Returned(r) /\ audits[loc[r].audit.pk].status = STATUS_FAILED) =>
            LET row == audits[loc[r].audit.pk]
                pending == NewAuditRow(row.website, row.url, row.created_by)
            IN /\ row.score = 0
               /\ row.response_time_ms = 0
               /\ row.content_length = 0
               /\ row.metadata = <<>>
               /\ row = [pending EXCEPT !.status = row.status, !.summary = row.summary]

====
